---- MODULE Spec2Model ----
(***************************************************************************)
(* A model of the cloud pricing calculator's decision engine: the size     *)
(* selector (recommender.py), the row validator (validator.py), the        *)
(* recommend / validate / price commands (main.py) and the monthly cost    *)
(* calculators (pricing.py).                                               *)
(*                                                                         *)
(* Representation.                                                         *)
(*   - A Python str is a tuple of one-character strings, so that strip(),  *)
(*     lower(), replace(), split() and the ordering of strings are         *)
(*     computed character by character.                                    *)
(*   - A cell of an input row is a record [t, n, s]: t is "none" (None, or *)
(*     an absent column), "nan" (a float NaN, which pandas puts in an      *)
(*     empty cell), "num" (a number, n in thousandths) or "str" (s).       *)
(*   - Memory sizes are in thousandths of a GiB, money in micro-dollars    *)
(*     until it is rounded to cents; round(x, 2) is RoundHalfEven.         *)
(***************************************************************************)
EXTENDS Integers, Sequences, FiniteSets, TLC

\* ------------------------------------------------------------------------
\* Python strings
\* ------------------------------------------------------------------------

\* The characters of the model's strings in ASCII order: ord() is the index.
AsciiOrder ==
    << " ", "#", "-", ".", "/",
       "0", "1", "2", "3", "4", "5", "6", "7", "8", "9",
       "A", "B", "C", "D", "E", "F", "G", "H", "I", "J", "K", "L", "M",
       "N", "O", "P", "Q", "R", "S", "T", "U", "V", "W", "X", "Y", "Z",
       "_",
       "a", "b", "c", "d", "e", "f", "g", "h", "i", "j", "k", "l", "m",
       "n", "o", "p", "q", "r", "s", "t", "u", "v", "w", "x", "y", "z" >>

Ord == [c \in {AsciiOrder[i] : i \in 1..Len(AsciiOrder)} |->
          CHOOSE i \in 1..Len(AsciiOrder) : AsciiOrder[i] = c]

UpperFirst == Ord["A"]
UpperLast  == Ord["Z"]
LowerFirst == Ord["a"]

\* str.lower() on one character.
LowerChar(c) ==
    IF Ord[c] >= UpperFirst /\ Ord[c] <= UpperLast
    THEN AsciiOrder[Ord[c] - UpperFirst + LowerFirst]
    ELSE c

\* str.lower()
Lower(s) == [i \in 1..Len(s) |-> LowerChar(s[i])]

\* str.upper()
UpperChar(c) ==
    IF Ord[c] >= LowerFirst THEN AsciiOrder[Ord[c] - LowerFirst + UpperFirst]
    ELSE c

Upper(s) == [i \in 1..Len(s) |-> UpperChar(s[i])]

\* str.strip(): leading and trailing blanks removed.
RECURSIVE LStrip(_)
LStrip(s) == IF s # <<>> /\ Head(s) = " " THEN LStrip(Tail(s)) ELSE s

RECURSIVE RStrip(_)
RStrip(s) ==
    IF s # <<>> /\ s[Len(s)] = " " THEN RStrip(SubSeq(s, 1, Len(s) - 1)) ELSE s

Strip(s) == RStrip(LStrip(s))

\* s.startswith(p)
StartsWith(s, p) == Len(p) <= Len(s) /\ SubSeq(s, 1, Len(p)) = p

\* p in s (substring)
RECURSIVE Contains(_, _)
Contains(s, p) ==
    IF Len(s) < Len(p) THEN FALSE
    ELSE StartsWith(s, p) \/ Contains(Tail(s), p)

\* s.replace(old, new), old non-empty: every occurrence, left to right.
RECURSIVE Replace(_, _, _)
Replace(s, old, new) ==
    IF s = <<>> THEN <<>>
    ELSE IF StartsWith(s, old)
         THEN new \o Replace(SubSeq(s, Len(old) + 1, Len(s)), old, new)
         ELSE <<Head(s)>> \o Replace(Tail(s), old, new)

\* " ".join(s.split()): blanks stripped at both ends, inner runs of blanks
\* collapsed to one.
RECURSIVE CollapseBlanks(_)
CollapseBlanks(s) ==
    IF Len(s) < 2 THEN s
    ELSE IF s[1] = " " /\ s[2] = " " THEN CollapseBlanks(Tail(s))
         ELSE <<Head(s)>> \o CollapseBlanks(Tail(s))

JoinSplit(s) == CollapseBlanks(Strip(s))

\* s.split(".")[0] and s.partition(".")[0]: the text before the first dot.
RECURSIVE BeforeDot(_)
BeforeDot(s) ==
    IF s = <<>> \/ Head(s) = "." THEN <<>>
    ELSE <<Head(s)>> \o BeforeDot(Tail(s))

\* a < b for two str (Python compares code points, a proper prefix first).
RECURSIVE StrLess(_, _)
StrLess(a, b) ==
    IF b = <<>> THEN FALSE
    ELSE IF a = <<>> THEN TRUE
    ELSE IF Head(a) # Head(b) THEN Ord[Head(a)] < Ord[Head(b)]
    ELSE StrLess(Tail(a), Tail(b))

\* list.index(x): the 0-based position of x in a list, -1 when absent.
IndexOf(list, x) ==
    IF \E i \in 1..Len(list) : list[i] = x
    THEN (CHOOSE i \in 1..Len(list) :
            list[i] = x /\ \A j \in 1..(i - 1) : list[j] # x) - 1
    ELSE -1

\* The elements of a list, as a set.
Range(list) == {list[i] : i \in 1..Len(list)}

\* ------------------------------------------------------------------------
\* Numbers
\* ------------------------------------------------------------------------

\* A Python float that may be NaN: v counts thousandths.
FNaN == [nan |-> TRUE, v |-> 0]
F(v) == [nan |-> FALSE, v |-> v]

\* round(x, 2) of a quantity x counted in units of 1/(100 * per): the
\* nearest hundredth, a tie going to the even one.
RoundHalfEven(x, per) ==
    LET q == x \div per
        r == x % per
    IN  IF 2 * r < per THEN q
        ELSE IF 2 * r > per THEN q + 1
        ELSE IF q % 2 = 0 THEN q ELSE q + 1

\* Thousandths in one hundredth: round(mem, 2) of a memory size.
MilliPerCenti == 10

\* Thousandths in one unit: int(x) of a float.
Milli == 1000

\* ------------------------------------------------------------------------
\* recommender.py: the size selector
\* ------------------------------------------------------------------------

\* Optional[dict]: None is the empty tuple, a dict d is <<d>>.
None == <<>>
Some(d) == <<d>>

\* FAMILY_PREFS.get(profile, FAMILY_PREFS["balanced"])
FAMILY_PREFS(profile) ==
    IF profile = <<"c", "o", "m", "p", "u", "t", "e">> THEN << <<"c", "7", "i">>, <<"c", "6", "i">>, <<"c", "5">> >>
    ELSE IF profile = <<"m", "e", "m", "o", "r", "y">> THEN << <<"r", "7", "i">>, <<"r", "6", "i">>, <<"r", "5">> >>
    ELSE << <<"m", "7", "i">>, <<"m", "6", "i">>, <<"m", "5">> >>

\* infer_profile(vcpu, mem_gib): memory per vCPU <= 3 GiB is "compute",
\* >= 6 GiB is "memory".  A NaN memory fails every comparison.
infer_profile(vcpu, mem_gib) ==
    IF mem_gib.nan THEN <<"b", "a", "l", "a", "n", "c", "e", "d">>
    ELSE IF vcpu <= 0 \/ mem_gib.v <= 0 THEN <<"b", "a", "l", "a", "n", "c", "e", "d">>
    ELSE IF mem_gib.v <= 3 * Milli * vcpu THEN <<"c", "o", "m", "p", "u", "t", "e">>
    ELSE IF mem_gib.v >= 6 * Milli * vcpu THEN <<"m", "e", "m", "o", "r", "y">>
    ELSE <<"b", "a", "l", "a", "n", "c", "e", "d">>

family_rank_mut(families, itype) ==
    LET i == IndexOf(families, BeforeDot(itype))
    IN  IF i >= 0 THEN i ELSE 0

\* _family_rank(families, itype)
_family_rank(families, itype) ==
    LET i == IndexOf(families, BeforeDot(itype))
    IN  IF i >= 0 THEN i ELSE Len(families) + 1

\* Python's < on two sort keys (number, ..., number, str).
RECURSIVE KeyLess(_, _)
KeyLess(a, b) ==
    IF Len(a) = 1 THEN StrLess(a[1], b[1])
    ELSE IF a[1] # b[1] THEN a[1] < b[1]
    ELSE KeyLess(Tail(a), Tail(b))

\* list.sort(key=...): a stable sort of entries [k |-> key, v |-> item].
RECURSIVE InsertSorted(_, _)
InsertSorted(sorted, e) ==
    IF sorted = <<>> THEN <<e>>
    ELSE IF KeyLess(e.k, Head(sorted).k) THEN <<e>> \o sorted
    ELSE <<Head(sorted)>> \o InsertSorted(Tail(sorted), e)

RECURSIVE SortByKey(_)
SortByKey(list) ==
    IF list = <<>> THEN <<>>
    ELSE InsertSorted(SortByKey(SubSeq(list, 1, Len(list) - 1)), list[Len(list)])

\* [x for x in list if keep(x)], in the order of the list.
RECURSIVE Filter(_, _)
Filter(list, keep) ==
    IF list = <<>> THEN <<>>
    ELSE (IF Head(list) \in keep THEN <<Head(list)>> ELSE <<>>)
         \o Filter(Tail(list), keep)

\* info["vcpu"] >= need_vcpu and info["memory_gib"] >= need_mem_gib
MeetsBoth(info, need_vcpu, need_mem_gib) ==
    /\ info.vcpu >= need_vcpu
    /\ ~need_mem_gib.nan
    /\ info.memory_gib >= need_mem_gib.v

\* pick_instance.sort_key
sort_key(families, info) ==
    << _family_rank(families, info.instanceType),
       info.vcpu, info.memory_gib, info.instanceType >>

\* The (vcpu, memory_gib, instanceType) key of pick_azure_size and
\* smallest_meeting_cpu.
size_key(info) == << info.vcpu, info.memory_gib, info.instanceType >>

\* The (memory_gib, vcpu, instanceType) key of smallest_meeting_mem.
mem_key(info) == << info.memory_gib, info.vcpu, info.instanceType >>

\* The items of a list, each with its sort key.
KeyedBy(list, key(_)) ==
    [i \in 1..Len(list) |-> [k |-> key(list[i]), v |-> list[i]]]

\* candidates.sort(key=...); return candidates[0], and None for no candidate.
Smallest(entries) ==
    IF entries = <<>> THEN None ELSE Some(SortByKey(entries)[1].v)

pick_instance_mut(catalog, profile, need_vcpu, need_mem_gib) ==
    Smallest(KeyedBy(Filter(catalog, {info \in Range(catalog) :
                                        info.vcpu >= need_vcpu}),
                     LAMBDA info : sort_key(FAMILY_PREFS(profile), info)))

\* pick_instance(catalog, profile, need_vcpu, need_mem_gib); the catalog is
\* the dict's values in iteration order, one per instance type.
pick_instance(catalog, profile, need_vcpu, need_mem_gib) ==
    Smallest(KeyedBy(Filter(catalog, {info \in Range(catalog) :
                                MeetsBoth(info, need_vcpu, need_mem_gib)}),
                     LAMBDA info : sort_key(FAMILY_PREFS(profile), info)))

\* smallest_meeting_cpu(catalog, vcpu_needed)
smallest_meeting_cpu(catalog, vcpu_needed) ==
    Smallest(KeyedBy(Filter(catalog, {info \in Range(catalog) :
                                        info.vcpu >= vcpu_needed}),
                     size_key))

\* smallest_meeting_mem(catalog, mem_needed)
smallest_meeting_mem(catalog, mem_needed) ==
    Smallest(KeyedBy(Filter(catalog, {info \in Range(catalog) :
                                        ~mem_needed.nan
                                        /\ info.memory_gib >= mem_needed.v}),
                     mem_key))

\* pick_azure_size(catalog, need_vcpu, need_mem_gib)
pick_azure_size(catalog, need_vcpu, need_mem_gib) ==
    Smallest(KeyedBy(Filter(catalog, {info \in Range(catalog) :
                                MeetsBoth(info, need_vcpu, need_mem_gib)}),
                     size_key))


\* ------------------------------------------------------------------------
\* main.py, recommend_row: what is written beside the chosen shape
\* ------------------------------------------------------------------------

\* Cells.  A number cell counts thousandths.
CNone   == [t |-> "none", n |-> 0, s |-> <<>>]
CNaN    == [t |-> "nan",  n |-> 0, s |-> <<>>]
CNum(n) == [t |-> "num",  n |-> n, s |-> <<>>]
CStr(s) == [t |-> "str",  n |-> 0, s |-> s]
CEmpty  == CStr(<<>>)

\* overprov_vcpu = chosen["vcpu"] - vcpu, "" when nothing is chosen
overprov_vcpu(chosen, vcpu) ==
    IF chosen = None THEN CEmpty
    ELSE CNum((chosen[1].vcpu - vcpu) * Milli)

\* overprov_mem_gib = round(chosen["memory_gib"] - mem_gib, 2), "" when
\* nothing is chosen (a shape is never chosen for a NaN request)
overprov_mem_gib(chosen, mem_gib) ==
    IF chosen = None THEN CEmpty
    ELSE CNum(RoundHalfEven(chosen[1].memory_gib - mem_gib.v, MilliPerCenti)
              * MilliPerCenti)

\* recommend_row.rank(x): (vcpu, memory_gib), or (inf, inf) for None, and
\* rank(mem_only) >= rank(cpu_only) on the two tuples.
RankGe_mut(mem_only, cpu_only) ==
    IF mem_only = None THEN TRUE
    ELSE IF cpu_only = None THEN FALSE
    ELSE mem_only[1].vcpu > cpu_only[1].vcpu

RankGe(mem_only, cpu_only) ==
    IF mem_only = None THEN TRUE
    ELSE IF cpu_only = None THEN FALSE
    ELSE \/ mem_only[1].vcpu > cpu_only[1].vcpu
         \/ /\ mem_only[1].vcpu = cpu_only[1].vcpu
            /\ mem_only[1].memory_gib >= cpu_only[1].memory_gib

\* recommend_row, lines 402-406: the class from the two single-dimension
\* minima.
fit_of(cpu_only, mem_only) ==
    IF cpu_only # None \/ mem_only # None
    THEN IF RankGe(mem_only, cpu_only) THEN <<"m", "e", "m", "o", "r", "y", "-", "b", "o", "u", "n", "d">> ELSE <<"c", "p", "u", "-", "b", "o", "u", "n", "d">>
    ELSE <<"n", "o", "-", "f", "i", "t", "-", "f", "a", "l", "l", "b", "a", "c", "k">>

\* recommend_row, lines 392-406: the fit classification; aws_catalog is the
\* Optional catalog held by recommend_cmd.
fit_reason(chosen, row_cloud, aws_catalog, vcpu, mem_gib) ==
    IF chosen = None THEN <<>>
    ELSE IF /\ chosen[1].vcpu = vcpu
            /\ ~mem_gib.nan
            /\ RoundHalfEven(chosen[1].memory_gib, MilliPerCenti)
               = RoundHalfEven(mem_gib.v, MilliPerCenti)
    THEN <<"e", "x", "a", "c", "t">>
    ELSE IF row_cloud = <<"a", "w", "s">>
    THEN IF aws_catalog # None /\ aws_catalog[1] # <<>>
         THEN fit_of(smallest_meeting_cpu(aws_catalog[1], vcpu),
                     smallest_meeting_mem(aws_catalog[1], mem_gib))
         ELSE fit_of(None, None)
    ELSE <<>>

\* ------------------------------------------------------------------------
\* The selector on its own: one call of pick_instance or pick_azure_size
\* on a catalog, with the deltas recommend_row derives from the result.
\* ------------------------------------------------------------------------

Shape(name, vcpu, mem) ==
    [instanceType |-> name, vcpu |-> vcpu, memory_gib |-> mem]

\* Instance types a provider may list (describe_instance_types keeps those
\* with vcpu > 0 and memory > 0).
ShapeUniverse ==
    { Shape(<<"m", "6", "i", ".", "x", "l", "a", "r", "g", "e">>,  4, 16000),
      Shape(<<"m", "6", "i", ".", "2", "x", "l", "a", "r", "g", "e">>, 8, 32000),
      Shape(<<"m", "5", ".", "x", "l", "a", "r", "g", "e">>,   4, 16000),
      Shape(<<"c", "6", "i", ".", "x", "l", "a", "r", "g", "e">>,  4,  8000),
      Shape(<<"r", "6", "i", ".", "x", "l", "a", "r", "g", "e">>,  4, 32000),
      Shape(<<"t", "3", ".", "x", "l", "a", "r", "g", "e">>,   4, 16000),
      Shape(<<"t", "3", "a", ".", "x", "l", "a", "r", "g", "e">>,  4, 16000) }

\* The largest catalog the selector is run on.
MaxCatalog == 3

\* A dict keyed by instance type: no type twice, any iteration order.
CatalogsOver(shapes, n) ==
    UNION { { c \in [1..k -> shapes] :
                \A i, j \in 1..k : i # j => c[i].instanceType # c[j].instanceType }
            : k \in 0..n }

SelProfiles == { <<"b", "a", "l", "a", "n", "c", "e", "d">>, <<"c", "o", "m", "p", "u", "t", "e">>, <<"m", "e", "m", "o", "r", "y">>, <<"g", "p", "u">> }
SelVcpus    == { 0, 4, 8, 16 }
SelMems     == { FNaN, F(8000), F(15996), F(32000), F(64000) }

VARIABLES
    sel_in,     \* the call: [cloud, catalog, profile, need_vcpu, need_mem_gib]
    sel_out,    \* its result: [chosen, overprov_vcpu, overprov_mem_gib,
                \* fit_reason]
    sel_pc      \* "idle" | "call" | "returned"

sel_vars == << sel_in, sel_out, sel_pc >>

SelNoCall == [cloud |-> "aws", catalog |-> <<>>, profile |-> <<>>,
              need_vcpu |-> 0, need_mem_gib |-> FNaN]
SelNoOut  == [chosen |-> None, overprov_vcpu |-> CEmpty,
              overprov_mem_gib |-> CEmpty, fit_reason |-> <<>>]

SelIdle ==
    /\ sel_in = SelNoCall
    /\ sel_out = SelNoOut
    /\ sel_pc = "idle"

SelInit ==
    /\ sel_in \in [cloud : {"aws", "azure"},
                   catalog : CatalogsOver(ShapeUniverse, MaxCatalog),
                   profile : SelProfiles,
                   need_vcpu : SelVcpus,
                   need_mem_gib : SelMems]
    /\ sel_out = SelNoOut
    /\ sel_pc = "call"

SelResult(chosen) ==
    [chosen |-> chosen,
     overprov_vcpu |-> overprov_vcpu(chosen, sel_in.need_vcpu),
     overprov_mem_gib |-> overprov_mem_gib(chosen, sel_in.need_mem_gib),
     fit_reason |-> fit_reason(chosen,
                               IF sel_in.cloud = "aws"
                               THEN <<"a", "w", "s">> ELSE <<"a", "z", "u", "r", "e">>,
                               Some(sel_in.catalog),
                               sel_in.need_vcpu, sel_in.need_mem_gib)]

SelectAws ==
    /\ sel_pc = "call"
    /\ sel_in.cloud = "aws"
    /\ sel_out' = SelResult(pick_instance(sel_in.catalog, sel_in.profile,
                                          sel_in.need_vcpu, sel_in.need_mem_gib))
    /\ sel_pc' = "returned"
    /\ UNCHANGED sel_in

SelectAzure ==
    /\ sel_pc = "call"
    /\ sel_in.cloud = "azure"
    /\ sel_out' = SelResult(pick_azure_size(sel_in.catalog,
                                            sel_in.need_vcpu, sel_in.need_mem_gib))
    /\ sel_pc' = "returned"
    /\ UNCHANGED sel_in

SelNext == SelectAws \/ SelectAzure

\* ------------------------------------------------------------------------
\* validator.py: the row validator
\* ------------------------------------------------------------------------

\* Canonical region sets.
AWS_REGIONS ==
    { <<"u", "s", "-", "e", "a", "s", "t", "-", "1">>, <<"u", "s", "-", "e", "a", "s", "t", "-", "2">>, <<"u", "s", "-", "w", "e", "s", "t", "-", "1">>, <<"u", "s", "-", "w", "e", "s", "t", "-", "2">>,
      <<"c", "a", "-", "c", "e", "n", "t", "r", "a", "l", "-", "1">>,
      <<"e", "u", "-", "w", "e", "s", "t", "-", "1">>, <<"e", "u", "-", "w", "e", "s", "t", "-", "2">>, <<"e", "u", "-", "w", "e", "s", "t", "-", "3">>, <<"e", "u", "-", "n", "o", "r", "t", "h", "-", "1">>, <<"e", "u", "-", "s", "o", "u", "t", "h", "-", "1">>,
      <<"e", "u", "-", "c", "e", "n", "t", "r", "a", "l", "-", "1">>, <<"e", "u", "-", "c", "e", "n", "t", "r", "a", "l", "-", "2">>,
      <<"a", "p", "-", "s", "o", "u", "t", "h", "-", "1">>, <<"a", "p", "-", "s", "o", "u", "t", "h", "-", "2">>, <<"a", "p", "-", "s", "o", "u", "t", "h", "e", "a", "s", "t", "-", "1">>, <<"a", "p", "-", "s", "o", "u", "t", "h", "e", "a", "s", "t", "-", "2">>,
      <<"a", "p", "-", "s", "o", "u", "t", "h", "e", "a", "s", "t", "-", "3">>, <<"a", "p", "-", "n", "o", "r", "t", "h", "e", "a", "s", "t", "-", "1">>, <<"a", "p", "-", "n", "o", "r", "t", "h", "e", "a", "s", "t", "-", "2">>, <<"a", "p", "-", "n", "o", "r", "t", "h", "e", "a", "s", "t", "-", "3">>,
      <<"a", "p", "-", "e", "a", "s", "t", "-", "1">>,
      <<"s", "a", "-", "e", "a", "s", "t", "-", "1">>,
      <<"a", "f", "-", "s", "o", "u", "t", "h", "-", "1">>,
      <<"m", "e", "-", "s", "o", "u", "t", "h", "-", "1">>, <<"m", "e", "-", "c", "e", "n", "t", "r", "a", "l", "-", "1">> }

AWS_GOV_REGIONS == { <<"u", "s", "-", "g", "o", "v", "-", "w", "e", "s", "t", "-", "1">>, <<"u", "s", "-", "g", "o", "v", "-", "e", "a", "s", "t", "-", "1">> }

ALL_AWS_REGIONS == AWS_REGIONS \cup AWS_GOV_REGIONS

AZURE_REGIONS ==
    { <<"e", "a", "s", "t", "u", "s">>, <<"e", "a", "s", "t", "u", "s", "2">>, <<"w", "e", "s", "t", "u", "s">>, <<"w", "e", "s", "t", "u", "s", "2">>, <<"w", "e", "s", "t", "u", "s", "3">>, <<"c", "e", "n", "t", "r", "a", "l", "u", "s">>,
      <<"n", "o", "r", "t", "h", "c", "e", "n", "t", "r", "a", "l", "u", "s">>, <<"s", "o", "u", "t", "h", "c", "e", "n", "t", "r", "a", "l", "u", "s">>,
      <<"n", "o", "r", "t", "h", "e", "u", "r", "o", "p", "e">>, <<"w", "e", "s", "t", "e", "u", "r", "o", "p", "e">>, <<"e", "a", "s", "t", "a", "s", "i", "a">>, <<"s", "o", "u", "t", "h", "e", "a", "s", "t", "a", "s", "i", "a">>,
      <<"j", "a", "p", "a", "n", "e", "a", "s", "t">>, <<"j", "a", "p", "a", "n", "w", "e", "s", "t">>, <<"a", "u", "s", "t", "r", "a", "l", "i", "a", "e", "a", "s", "t">>,
      <<"a", "u", "s", "t", "r", "a", "l", "i", "a", "s", "o", "u", "t", "h", "e", "a", "s", "t">>, <<"a", "u", "s", "t", "r", "a", "l", "i", "a", "c", "e", "n", "t", "r", "a", "l">>, <<"b", "r", "a", "z", "i", "l", "s", "o", "u", "t", "h">>,
      <<"s", "o", "u", "t", "h", "i", "n", "d", "i", "a">>, <<"c", "e", "n", "t", "r", "a", "l", "i", "n", "d", "i", "a">>, <<"w", "e", "s", "t", "i", "n", "d", "i", "a">>,
      <<"c", "a", "n", "a", "d", "a", "c", "e", "n", "t", "r", "a", "l">>, <<"c", "a", "n", "a", "d", "a", "e", "a", "s", "t">>, <<"w", "e", "s", "t", "c", "e", "n", "t", "r", "a", "l", "u", "s">>, <<"u", "k", "s", "o", "u", "t", "h">>, <<"u", "k", "w", "e", "s", "t">>,
      <<"k", "o", "r", "e", "a", "c", "e", "n", "t", "r", "a", "l">>, <<"k", "o", "r", "e", "a", "s", "o", "u", "t", "h">>,
      <<"f", "r", "a", "n", "c", "e", "c", "e", "n", "t", "r", "a", "l">>, <<"s", "o", "u", "t", "h", "a", "f", "r", "i", "c", "a", "n", "o", "r", "t", "h">>, <<"u", "a", "e", "n", "o", "r", "t", "h">>, <<"s", "w", "i", "t", "z", "e", "r", "l", "a", "n", "d", "n", "o", "r", "t", "h">>,
      <<"g", "e", "r", "m", "a", "n", "y", "w", "e", "s", "t", "c", "e", "n", "t", "r", "a", "l">>, <<"n", "o", "r", "w", "a", "y", "e", "a", "s", "t">>,
      <<"j", "i", "o", "i", "n", "d", "i", "a", "w", "e", "s", "t">>, <<"s", "w", "e", "d", "e", "n", "c", "e", "n", "t", "r", "a", "l">>, <<"q", "a", "t", "a", "r", "c", "e", "n", "t", "r", "a", "l">>, <<"p", "o", "l", "a", "n", "d", "c", "e", "n", "t", "r", "a", "l">>,
      <<"i", "t", "a", "l", "y", "n", "o", "r", "t", "h">>, <<"i", "s", "r", "a", "e", "l", "c", "e", "n", "t", "r", "a", "l">>,
      <<"s", "p", "a", "i", "n", "c", "e", "n", "t", "r", "a", "l">>, <<"m", "e", "x", "i", "c", "o", "c", "e", "n", "t", "r", "a", "l">>, <<"m", "a", "l", "a", "y", "s", "i", "a", "w", "e", "s", "t">>, <<"n", "e", "w", "z", "e", "a", "l", "a", "n", "d", "n", "o", "r", "t", "h">>,
      <<"i", "n", "d", "o", "n", "e", "s", "i", "a", "c", "e", "n", "t", "r", "a", "l">>, <<"a", "u", "s", "t", "r", "i", "a", "e", "a", "s", "t">>, <<"c", "h", "i", "l", "e", "c", "e", "n", "t", "r", "a", "l">> }

TIER_A_ENUMS_cloud == { <<"a", "w", "s">>, <<"a", "z", "u", "r", "e">> }
TIER_A_REQUIRED == << "cloud", "region" >>

\* TIER_B_ENUMS, in the dict's order.
TIER_B_FIELDS == << "os", "purchase_option", "profile", "arch" >>
TIER_B_ENUMS ==
    [ os              |-> { <<"l", "i", "n", "u", "x">>, <<"w", "i", "n", "d", "o", "w", "s">> },
      purchase_option |-> { <<"o", "n", "d", "e", "m", "a", "n", "d">>, <<"s", "p", "o", "t">>, <<"r", "e", "s", "e", "r", "v", "e", "d">> },
      profile         |-> { <<"b", "a", "l", "a", "n", "c", "e", "d">>, <<"c", "o", "m", "p", "u", "t", "e">>, <<"m", "e", "m", "o", "r", "y">> },
      arch            |-> { <<"x", "8", "6">>, <<"a", "r", "m">> } ]

TIER_B_REQUIRED_FOR_PRICING == << "os", "purchase_option", "root_gb", "root_type" >>

\* CLOUD_SPECIFIC_BOOL.get(cloud_l, [])
CLOUD_SPECIFIC_BOOL(cloud_l) ==
    IF cloud_l = <<"a", "w", "s">> THEN << "byol" >>
    ELSE IF cloud_l = <<"a", "z", "u", "r", "e">> THEN << "ahub" >>
    ELSE << >>

_NULLISH_STR == { <<>>, <<"n", "a", "n">>, <<"n", "u", "l", "l">>, <<"n", "o", "n", "e">>, <<"n", "/", "a">>, <<"#", "n", "/", "a">> }

\* str(v) of a cell that holds text (the text columns of the model's rows
\* hold text, None or NaN).
StrOf(v) == v.s

_is_missing_mut(v) ==
    \/ v.t \in {"none", "nan"}
    \/ v.t = "str" /\ Strip(v.s) \in _NULLISH_STR

\* _is_missing(v): None, a float NaN (math.isnan, pd.isna), or text whose
\* str(v).strip().lower() is a nullish token.
_is_missing(v) ==
    \/ v.t \in {"none", "nan"}
    \/ v.t = "str" /\ Lower(Strip(v.s)) \in _NULLISH_STR

\* _norm_str(v): Optional[str]
_norm_str(v) ==
    IF _is_missing(v) THEN None
    ELSE IF Lower(Strip(StrOf(v))) \in _NULLISH_STR THEN None
    ELSE Some(Strip(StrOf(v)))

\* The digits of a decimal literal.
IsDigit(c) == Ord[c] >= Ord["0"] /\ Ord[c] <= Ord["9"]
AllDigits(s) == \A i \in 1..Len(s) : IsDigit(s[i])

RECURSIVE DigitsValue(_)
DigitsValue(s) ==
    IF s = <<>> THEN 0
    ELSE DigitsValue(SubSeq(s, 1, Len(s) - 1)) * 10
         + (Ord[s[Len(s)]] - Ord["0"])

\* int(text): an optionally signed run of digits, blanks around it ignored.
\* [ok, v]; ok = FALSE is ValueError.
ParseInt(text) ==
    LET s   == Strip(text)
        neg == s # <<>> /\ Head(s) = "-"
        d   == IF neg THEN Tail(s) ELSE s
    IN  IF d # <<>> /\ AllDigits(d)
        THEN [ok |-> TRUE, v |-> IF neg THEN -DigitsValue(d) ELSE DigitsValue(d)]
        ELSE [ok |-> FALSE, v |-> 0]

\* float(text): "nan", or an optionally signed decimal literal with at most
\* three decimals (the literals of the model's rows), blanks around it
\* ignored.  [ok, f]; ok = FALSE is ValueError.
ParseFloat(text) ==
    LET s    == Strip(text)
        neg  == s # <<>> /\ Head(s) = "-"
        d    == IF neg THEN Tail(s) ELSE s
        ip   == BeforeDot(d)
        rest == SubSeq(d, Len(ip) + 1, Len(d))
        fp   == IF rest = <<>> THEN <<>> ELSE Tail(rest)
        pad  == fp \o SubSeq(<<"0", "0", "0">>, 1, 3 - Len(fp))
        mag  == DigitsValue(ip) * Milli + DigitsValue(pad)
    IN  IF Lower(d) = <<"n", "a", "n">> THEN [ok |-> TRUE, f |-> FNaN]
        ELSE IF /\ AllDigits(ip) /\ AllDigits(fp)
                /\ Len(ip) + Len(fp) > 0 /\ Len(fp) <= 3
             THEN [ok |-> TRUE, f |-> F(IF neg THEN -mag ELSE mag)]
             ELSE [ok |-> FALSE, f |-> FNaN]

\* float(v) of a cell: [ok, f]; float(None) is TypeError.
FloatOf(v) ==
    IF v.t = "num" THEN [ok |-> TRUE, f |-> F(v.n)]
    ELSE IF v.t = "nan" THEN [ok |-> TRUE, f |-> FNaN]
    ELSE IF v.t = "str" THEN ParseFloat(v.s)
    ELSE [ok |-> FALSE, f |-> FNaN]

\* _to_float_pos, lines 113-115: the parsed value when it is > 0 (a NaN is
\* not), else None; a value that does not parse is None.
positive_or_none(p) ==
    IF p.ok /\ ~p.f.nan /\ p.f.v > 0 THEN Some(p.f) ELSE None

\* _to_float_pos(v): Optional[float]
_to_float_pos(v) ==
    IF _is_missing(v) THEN None ELSE positive_or_none(FloatOf(v))

\* _is_bool_like(v)
_is_bool_like(v) ==
    Lower(Strip(StrOf(v))) \in { <<"t", "r", "u", "e">>, <<"f", "a", "l", "s", "e">>, <<"0">>, <<"1">>, <<"y", "e", "s">>, <<"n", "o">> }

\* recommender.normalize_azure_region(s)
_AZ_REGION_NORMALIZE ==
    { << <<"e", "a", "s", "t", " ", "u", "s">>, <<"e", "a", "s", "t", "u", "s">> >>,     << <<"e", "a", "s", "t", "u", "s">>, <<"e", "a", "s", "t", "u", "s">> >>,
      << <<"e", "a", "s", "t", " ", "u", "s", " ", "2">>, <<"e", "a", "s", "t", "u", "s", "2">> >>,  << <<"e", "a", "s", "t", "u", "s", "2">>, <<"e", "a", "s", "t", "u", "s", "2">> >>,
      << <<"w", "e", "s", "t", " ", "u", "s">>, <<"w", "e", "s", "t", "u", "s">> >>,     << <<"w", "e", "s", "t", "u", "s">>, <<"w", "e", "s", "t", "u", "s">> >>,
      << <<"w", "e", "s", "t", " ", "u", "s", " ", "2">>, <<"w", "e", "s", "t", "u", "s", "2">> >>,  << <<"w", "e", "s", "t", "u", "s", "2">>, <<"w", "e", "s", "t", "u", "s", "2">> >> }

\* table.get(key, default) on a set of <<key, value>> pairs
TableGet(table, key, default) ==
    IF \E e \in table : e[1] = key
    THEN (CHOOSE e \in table : e[1] = key)[2]
    ELSE default

normalize_azure_region(s) ==
    LET key == JoinSplit(Lower(s))
    IN  TableGet(_AZ_REGION_NORMALIZE, key, Replace(key, <<" ">>, <<>>))

_AWS_REGION_ALIASES ==
    { << <<"a", "w", "s", " ", "g", "o", "v", "c", "l", "o", "u", "d", " ", "u", "s", "-", "w", "e", "s", "t">>, <<"u", "s", "-", "g", "o", "v", "-", "w", "e", "s", "t", "-", "1">> >>,
      << <<"a", "w", "s", "-", "g", "o", "v", "-", "w", "e", "s", "t">>,         <<"u", "s", "-", "g", "o", "v", "-", "w", "e", "s", "t", "-", "1">> >>,
      << <<"g", "o", "v", "c", "l", "o", "u", "d", "-", "u", "s", "-", "w", "e", "s", "t">>,     <<"u", "s", "-", "g", "o", "v", "-", "w", "e", "s", "t", "-", "1">> >>,
      << <<"g", "o", "v", "-", "w", "e", "s", "t", "-", "1">>,           <<"u", "s", "-", "g", "o", "v", "-", "w", "e", "s", "t", "-", "1">> >>,
      << <<"a", "w", "s", " ", "g", "o", "v", "c", "l", "o", "u", "d", " ", "u", "s", "-", "e", "a", "s", "t">>, <<"u", "s", "-", "g", "o", "v", "-", "e", "a", "s", "t", "-", "1">> >>,
      << <<"a", "w", "s", "-", "g", "o", "v", "-", "e", "a", "s", "t">>,         <<"u", "s", "-", "g", "o", "v", "-", "e", "a", "s", "t", "-", "1">> >>,
      << <<"g", "o", "v", "c", "l", "o", "u", "d", "-", "u", "s", "-", "e", "a", "s", "t">>,     <<"u", "s", "-", "g", "o", "v", "-", "e", "a", "s", "t", "-", "1">> >>,
      << <<"g", "o", "v", "-", "e", "a", "s", "t", "-", "1">>,           <<"u", "s", "-", "g", "o", "v", "-", "e", "a", "s", "t", "-", "1">> >> }

\* _normalize_aws_region without the alias table and the govcloud-us rewrite.
_normalize_aws_region_mut(r) == Lower(Strip(r))

\* _normalize_aws_region(r)
_normalize_aws_region(r) ==
    LET k == Lower(Strip(r))
    IN  IF k \in ALL_AWS_REGIONS THEN k
        ELSE TableGet(_AWS_REGION_ALIASES, k,
                      Replace(k, <<"g", "o", "v", "c", "l", "o", "u", "d", "-", "u", "s">>, <<"u", "s", "-", "g", "o", "v">>))

\* Issue(level, field, reason, ...): the reason is its fixed wording and the
\* cell it quotes; fix_hint, a text derived from the same data, is left out.
Issue(level, field, reason, cell) ==
    [level |-> level, field |-> field, reason |-> reason, arg |-> cell]

\* _validate_region_for_cloud, lines 162-212: the issue for a region r_l
\* that is present, given what it normalizes to for each cloud.
region_issues(c, r_l, region_raw, az, aws) ==
    IF c = <<"a", "z", "u", "r", "e">>
    THEN IF az \notin AZURE_REGIONS
         THEN << Issue("error", "region", "invalid Azure region", region_raw) >>
         ELSE IF az # r_l
         THEN << Issue("warn", "region", "normalized", region_raw) >>
         ELSE <<>>
    ELSE IF c = <<"a", "w", "s">>
    THEN IF aws \in ALL_AWS_REGIONS
         THEN IF aws # r_l
              THEN << Issue("warn", "region", "normalized", region_raw) >>
              ELSE <<>>
         ELSE << Issue("error", "region", "invalid AWS region", region_raw) >>
    ELSE <<>>

\* _validate_region_for_cloud(cloud, region_raw): cloud is _norm_str's
\* Optional[str].
_validate_region_for_cloud(cloud, region_raw) ==
    IF _norm_str(region_raw) = None THEN <<>>
    ELSE region_issues(IF cloud = None THEN <<>> ELSE Lower(Strip(cloud[1])),
                       Lower(_norm_str(region_raw)[1]), region_raw,
                       normalize_azure_region(Lower(_norm_str(region_raw)[1])),
                       _normalize_aws_region(Lower(_norm_str(region_raw)[1])))

ValidationResult(status, blocking_for, issues) ==
    [status |-> status, blocking_for |-> blocking_for, issues |-> issues]

\* [Issue(...) for f in fields if f in which], in the order of fields; the
\* reasons "missing" and "missing for pricing" quote no value.
RECURSIVE IssuesFor(_, _, _, _, _)
IssuesFor(fields, which, level, reason, row) ==
    IF fields = <<>> THEN <<>>
    ELSE (IF Head(fields) \in which
          THEN << Issue(level, Head(fields), reason,
                        IF reason \in {"missing", "missing for pricing"}
                        THEN CNone ELSE row[Head(fields)]) >>
          ELSE <<>>)
         \o IssuesFor(Tail(fields), which, level, reason, row)

HasError(issues) == \E i \in 1..Len(issues) : issues[i].level = "error"

\* validate_row, Tier B: the issues of the pricing gate, in the order they
\* are appended (invalid enums, malformed toggles, missing pricing fields).
tier_b_issues(row, cloud) ==
    LET bad_enum == {f \in Range(TIER_B_FIELDS) :
                       LET v == _norm_str(row[f])
                       IN  v # None /\ Lower(v[1]) \notin TIER_B_ENUMS[f]}
        cloud_l  == IF cloud = None THEN <<>> ELSE Lower(cloud[1])
        toggles  == CLOUD_SPECIFIC_BOOL(cloud_l)
        bad_bool == {f \in Range(toggles) :
                       ~_is_missing(row[f]) /\ ~_is_bool_like(row[f])}
        missing_b == {f \in Range(TIER_B_REQUIRED_FOR_PRICING) :
                        _is_missing(row[f])}
    IN  IssuesFor(TIER_B_FIELDS, bad_enum, "warn", "invalid", row)
        \o IssuesFor(toggles, bad_bool, "warn", "non-boolean", row)
        \o IssuesFor(TIER_B_REQUIRED_FOR_PRICING, missing_b,
                     "warn", "missing for pricing", row)

\* validate_row, lines 219-229: the Tier A issues of presence, of the cloud
\* enum and of the region, in that order.
tier_a_issues(row, cloud) ==
    IssuesFor(TIER_A_REQUIRED,
              {f \in Range(TIER_A_REQUIRED) : _is_missing(row[f])},
              "error", "missing", row)
    \o (IF cloud # None /\ Lower(cloud[1]) \notin TIER_A_ENUMS_cloud
        THEN << Issue("error", "cloud", "invalid", row.cloud) >>
        ELSE <<>>)
    \o _validate_region_for_cloud(cloud, row.region)

\* validate_row, lines 233-238: at least one of vcpu, memory_gib is > 0.
capacity_issues(row) ==
    IF _to_float_pos(row.vcpu) = None /\ _to_float_pos(row.memory_gib) = None
    THEN << Issue("error", "vcpu|memory_gib", "both missing or non-positive",
                  CNone) >>
    ELSE <<>>

tier_b_verdict_mut(row, issues) == ValidationResult("ok", "none", issues)

\* validate_row, lines 252 and 262-268: rec_only when a pricing field is
\* missing, else ok.
tier_b_verdict(row, issues) ==
    IF {f \in Range(TIER_B_REQUIRED_FOR_PRICING) : _is_missing(row[f])} # {}
    THEN ValidationResult("rec_only", "pricing", issues)
    ELSE ValidationResult("ok", "none", issues)

tier_a_verdict_mut(row, cloud, issues) ==
    IF HasError(issues)
    THEN ValidationResult("error", "recommendation",
                          issues \o tier_b_issues(row, cloud))
    ELSE tier_b_verdict(row, issues \o tier_b_issues(row, cloud))

\* validate_row, lines 240-242: the early exit when recommendation is
\* blocked, else Tier B.
tier_a_verdict(row, cloud, issues) ==
    IF HasError(issues)
    THEN ValidationResult("error", "recommendation", issues)
    ELSE tier_b_verdict(row, issues \o tier_b_issues(row, cloud))

region_verdict_mut(row, cloud, issues) ==
    tier_a_verdict(row, cloud, issues \o capacity_issues(row))

\* validate_row, lines 229-238: the early exit on a region error, else the
\* capacity check.
region_verdict(row, cloud, issues) ==
    IF \E i \in 1..Len(issues) :
          issues[i].level = "error" /\ issues[i].field = "region"
    THEN ValidationResult("error", "recommendation", issues)
    ELSE tier_a_verdict(row, cloud, issues \o capacity_issues(row))

\* validate_row(row)
validate_row(row) ==
    region_verdict(row, _norm_str(row.cloud),
                   tier_a_issues(row, _norm_str(row.cloud)))

\* ------------------------------------------------------------------------
\* The validator on its own: validate_row on one row.
\* ------------------------------------------------------------------------

Row(cloud, region, vcpu, memory_gib, os, purchase_option, profile, arch, root_gb, root_type, byol, ahub) ==
    [cloud |-> cloud, region |-> region, vcpu |-> vcpu,
     memory_gib |-> memory_gib, os |-> os,
     purchase_option |-> purchase_option, profile |-> profile, arch |-> arch,
     root_gb |-> root_gb, root_type |-> root_type, byol |-> byol, ahub |-> ahub]

\* The cells the validator is run on, column by column.
ValClouds  == { CNone, CStr(<<"a", "w", "s">>), CStr(<<" ", "A", "W", "S", " ">>), CStr(<<"a", "z", "u", "r", "e">>),
                CStr(<<"g", "c", "p">>) }
ValRegions == { CNaN, CStr(<<"u", "s", "-", "e", "a", "s", "t", "-", "1">>), CStr(<<"a", "w", "s", " ", "g", "o", "v", "c", "l", "o", "u", "d", " ", "u", "s", "-", "w", "e", "s", "t">>),
                CStr(<<"e", "a", "s", "t", "u", "s">>), CStr(<<"E", "a", "s", "t", " ", "U", "S">>), CStr(<<"m", "a", "r", "s">>),
                CStr(<<"G", "o", "v", "C", "l", "o", "u", "d", "-", "U", "S", "-", "E", "a", "s", "t", "-", "1">>) }
ValVcpus   == { CNaN, CNum(4000), CStr(<<"0">>) }
ValMems    == { CNone, CNum(16000), CStr(<<"N", "a", "N">>) }
ValOs      == { CNaN, CStr(<<"L", "i", "n", "u", "x">>), CStr(<<"s", "o", "l", "a", "r", "i", "s">>) }
ValPurchase == { CStr(<<>>), CStr(<<"o", "n", "d", "e", "m", "a", "n", "d">>) }
ValProfile == { CNone, CStr(<<"t", "u", "r", "b", "o">>) }
ValArch    == { CStr(<<"x", "8", "6">>) }
ValRootGb  == { CNaN, CNum(50000) }
ValRootType == { CStr(<<"n", "u", "l", "l">>), CStr(<<"g", "p", "3">>) }
ValByol    == { CNone, CStr(<<"m", "a", "y", "b", "e">>) }
ValAhub    == { CStr(<<"2">>) }

ValRows ==
    { Row(c, r, v, m, o, p, pr, a, g, ty, b, h) :
        c \in ValClouds, r \in ValRegions, v \in ValVcpus, m \in ValMems,
        o \in ValOs, p \in ValPurchase, pr \in ValProfile, a \in ValArch,
        g \in ValRootGb, ty \in ValRootType, b \in ValByol, h \in ValAhub }

VARIABLES
    val_row,    \* the row validate_row is called on
    val_res,    \* its ValidationResult
    val_first,  \* the row the first call was given and what it returned
    val_pc      \* "idle" | "call" | "returned" | "again"

val_vars == << val_row, val_res, val_first, val_pc >>

ValNoRow == Row(CNone, CNone, CNone, CNone, CNone, CNone, CNone, CNone,
                CNone, CNone, CNone, CNone)
ValNoRes == ValidationResult("", "", <<>>)
ValNoFirst == [row |-> ValNoRow, res |-> ValNoRes]

ValIdle ==
    /\ val_row = ValNoRow
    /\ val_res = ValNoRes
    /\ val_first = ValNoFirst
    /\ val_pc = "idle"

ValInit ==
    /\ val_row \in ValRows
    /\ val_res = ValNoRes
    /\ val_first = ValNoFirst
    /\ val_pc = "call"

\* The row as a call of validate_row leaves it, with the region written
\* back as it was normalized.
row_after_validate_row_mut(row) ==
    [row EXCEPT !.region = IF _norm_str(@) = None THEN @
                           ELSE CStr(Lower(_norm_str(@)[1]))]

\* The row as a call of validate_row leaves it: lines 216-268 read the
\* dict with row.get and assign to no key of it.
row_after_validate_row(row) == row

\* The first call of validate_row on the row.
Validate ==
    /\ val_pc = "call"
    /\ val_res' = validate_row(val_row)
    /\ val_row' = row_after_validate_row(val_row)
    /\ val_first' = [row |-> val_row, res |-> validate_row(val_row)]
    /\ val_pc' = "returned"

\* A second call of validate_row on the same dict.
ValidateAgain ==
    /\ val_pc = "returned"
    /\ val_res' = validate_row(val_row)
    /\ val_row' = row_after_validate_row(val_row)
    /\ val_pc' = "again"
    /\ UNCHANGED val_first

ValNext == Validate

\* ------------------------------------------------------------------------
\* main.py: recommend_cmd and validate_cmd
\* ------------------------------------------------------------------------

\* int(v) of a cell: [ok, v].  int() of a float drops the fraction, of a NaN
\* or of a text that is no integer literal raises ValueError, of None
\* TypeError.
IntOf(v) ==
    IF v.t = "num"
    THEN [ok |-> TRUE,
          v  |-> IF v.n >= 0 THEN v.n \div Milli ELSE -((-v.n) \div Milli)]
    ELSE IF v.t = "str" THEN ParseInt(v.s)
    ELSE [ok |-> FALSE, v |-> 0]

\* cloud_from_str(s)
cloud_from_str(s) ==
    IF Lower(Strip(s)) \in { <<"a", "z", "u", "r", "e">>, <<"a", "z">> } THEN <<"a", "z", "u", "r", "e">> ELSE <<"a", "w", "s">>

\* The provider's answer to fetch_instance_catalog(region): the current
\* x86_64 instance types of the region, [ok, catalog].
fetch_instance_catalog(region) ==
    IF region = <<"u", "s", "-", "e", "a", "s", "t", "-", "1">>
    THEN [ok |-> TRUE,
          catalog |-> << Shape(<<"m", "6", "i", ".", "x", "l", "a", "r", "g", "e">>,  4, 16000),
                         Shape(<<"c", "6", "i", ".", "x", "l", "a", "r", "g", "e">>,  4,  8000),
                         Shape(<<"r", "6", "i", ".", "x", "l", "a", "r", "g", "e">>,  4, 32000),
                         Shape(<<"m", "6", "i", ".", "2", "x", "l", "a", "r", "g", "e">>, 8, 32000) >>]
    ELSE IF region = <<"u", "s", "-", "w", "e", "s", "t", "-", "2">>
    THEN [ok |-> TRUE,
          catalog |-> << Shape(<<"t", "3", ".", "x", "l", "a", "r", "g", "e">>,  4, 16000),
                         Shape(<<"m", "5", ".", "2", "x", "l", "a", "r", "g", "e">>, 8, 32000) >>]
    ELSE [ok |-> TRUE, catalog |-> <<>>]

\* The provider's answer to fetch_azure_vm_catalog(region): [ok, catalog];
\* ok = FALSE is the SystemExit raised when no size list is available.
fetch_azure_vm_catalog(region) ==
    IF region = <<"e", "a", "s", "t", "u", "s">>
    THEN [ok |-> TRUE,
          catalog |-> << Shape(<<"S", "t", "a", "n", "d", "a", "r", "d", "_", "D", "4", "s", "_", "v", "5">>, 4, 16000),
                         Shape(<<"S", "t", "a", "n", "d", "a", "r", "d", "_", "E", "4", "s", "_", "v", "5">>, 4, 32000) >>]
    ELSE IF region = <<"w", "e", "s", "t", "u", "s">>
    THEN [ok |-> TRUE,
          catalog |-> << Shape(<<"S", "t", "a", "n", "d", "a", "r", "d", "_", "D", "2", "s", "_", "v", "5">>, 2,  8000),
                         Shape(<<"S", "t", "a", "n", "d", "a", "r", "d", "_", "D", "8", "s", "_", "v", "5">>, 8, 32000) >>]
    ELSE [ok |-> FALSE, catalog |-> <<>>]

NoteInvalid      == <<"I", "n", "v", "a", "l", "i", "d", " ", "v", "c", "p", "u", "/", "m", "e", "m", "o", "r", "y", "_", "g", "i", "b">>
NoteNoMatchAzure == <<"N", "o", " ", "m", "a", "t", "c", "h", "i", "n", "g", " ", "s", "i", "z", "e", " ", "f", "o", "u", "n", "d", " ", "i", "n", " ", "r", "e", "g", "i", "o", "n", ".">>
NoteNoMatchAws   ==
    <<"N", "o", " ", "m", "a", "t", "c", "h", "i", "n", "g", " ", "c", "u", "r", "r", "e", "n", "t", "-", "g", "e", "n", " ", "x", "8", "6", "_", "6", "4", " ", "f", "o", "u", "n", "d", ";", " ", "c", "o", "n", "s", "i", "d", "e", "r", " ", "G", "P", "U", "/", "A", "R", "M", " ", "o", "r", " ", "o", "l", "d", "e", "r", "-", "g", "e", "n", ".">>

\* The keys recommend_row adds to the row; a key it leaves out is NaN in the
\* frame that is written.
RecKeys(cloud, region, requested_vcpu, requested_memory_gib, profile, itype, rec_vcpu, rec_memory_gib, over_vcpu, over_mem, fit, note) ==
    [cloud |-> cloud, region |-> region,
     requested_vcpu |-> requested_vcpu,
     requested_memory_gib |-> requested_memory_gib,
     profile |-> profile,
     recommended_instance_type |-> itype,
     rec_vcpu |-> rec_vcpu, rec_memory_gib |-> rec_memory_gib,
     overprov_vcpu |-> over_vcpu, overprov_mem_gib |-> over_mem,
     fit_reason |-> fit, note |-> note]

\* dict.get(key) on the per-region cache, a list of [region, catalog].
CacheGet(cache, region) ==
    IF \E i \in 1..Len(cache) : cache[i].region = region
    THEN Some((CHOOSE e \in Range(cache) : e.region = region).catalog)
    ELSE None

\* v or default, for a text cell: None and "" are falsy, NaN is truthy.
CellOr(v, default) ==
    IF v.t = "none" \/ (v.t = "str" /\ v.s = <<>>) THEN default ELSE v

\* recommend_row, lines 370-372: the row's profile when it is one of the
\* three, else the inferred one.
row_profile(row, vcpu, mem_gib) ==
    IF /\ row.profile.t = "str"
       /\ Lower(Strip(row.profile.s)) \in { <<"b", "a", "l", "a", "n", "c", "e", "d">>, <<"c", "o", "m", "p", "u", "t", "e">>, <<"m", "e", "m", "o", "r", "y">> }
    THEN Lower(Strip(row.profile.s))
    ELSE infer_profile(vcpu, mem_gib)

\* What one call of recommend_row leaves behind: the record it returns
\* (out), or that it raised instead, the two caches, and the catalog
\* fetches it made.
RowResult(out, raised, aws_catalog, azure_cache, fetched) ==
    [out |-> out, raised |-> raised, aws_catalog |-> aws_catalog,
     azure_cache |-> azure_cache, fetched |-> fetched]

\* recommend_row, lines 357-368: the record of a row whose vcpu or
\* memory_gib does not convert.
invalid_record(row, default_cloud) ==
    RecKeys(CStr(default_cloud), row.region, CNaN, CNaN, row.profile,
            CEmpty, CEmpty, CEmpty, CEmpty, CEmpty, CEmpty, CStr(NoteInvalid))
    @@ row

sized_record_mut(row, row_cloud, out_region, vcpu, mem_gib, aws_catalog, chosen) ==
    RecKeys(CStr(row_cloud), out_region, CNum(vcpu * Milli),
            IF mem_gib.nan THEN CNaN ELSE CNum(mem_gib.v),
            CStr(row_profile(row, vcpu, mem_gib)),
            IF chosen = None THEN CEmpty ELSE CStr(chosen[1].instanceType),
            IF chosen = None THEN CNum(0) ELSE CNum(chosen[1].vcpu * Milli),
            IF chosen = None THEN CEmpty
            ELSE CNum(RoundHalfEven(chosen[1].memory_gib, MilliPerCenti)
                      * MilliPerCenti),
            overprov_vcpu(chosen, vcpu),
            overprov_mem_gib(chosen, mem_gib),
            CStr(fit_reason(chosen, row_cloud, aws_catalog, vcpu, mem_gib)),
            CEmpty)
    @@ row

\* recommend_row, lines 392-424: the record of a row that was sized, with
\* the chosen shape or without one.
sized_record(row, row_cloud, out_region, vcpu, mem_gib, aws_catalog, chosen) ==
    RecKeys(CStr(row_cloud), out_region, CNum(vcpu * Milli),
            IF mem_gib.nan THEN CNaN ELSE CNum(mem_gib.v),
            CStr(row_profile(row, vcpu, mem_gib)),
            IF chosen = None THEN CEmpty ELSE CStr(chosen[1].instanceType),
            IF chosen = None THEN CEmpty ELSE CNum(chosen[1].vcpu * Milli),
            IF chosen = None THEN CEmpty
            ELSE CNum(RoundHalfEven(chosen[1].memory_gib, MilliPerCenti)
                      * MilliPerCenti),
            overprov_vcpu(chosen, vcpu),
            overprov_mem_gib(chosen, mem_gib),
            CStr(fit_reason(chosen, row_cloud, aws_catalog, vcpu, mem_gib)),
            IF chosen # None THEN CEmpty
            ELSE IF row_cloud = <<"a", "z", "u", "r", "e">> THEN CStr(NoteNoMatchAzure)
            ELSE CStr(NoteNoMatchAws))
    @@ row

\* recommend_row, lines 376-381, with the region normalized and the cache
\* looked up (hit) and the provider asked (got) when it misses.
recommend_azure(row, vcpu, mem_gib, aws_catalog, azure_cache, az_region, hit, got) ==
    IF hit # None
    THEN RowResult(sized_record(row, <<"a", "z", "u", "r", "e">>, CStr(az_region), vcpu, mem_gib,
                                aws_catalog,
                                pick_azure_size(hit[1], vcpu, mem_gib)),
                   FALSE, aws_catalog, azure_cache, <<>>)
    ELSE IF ~got.ok
    THEN RowResult(row, TRUE, aws_catalog, azure_cache,
                   << << <<"a", "z", "u", "r", "e">>, az_region >> >>)
    ELSE RowResult(sized_record(row, <<"a", "z", "u", "r", "e">>, CStr(az_region), vcpu, mem_gib,
                                aws_catalog,
                                pick_azure_size(got.catalog, vcpu, mem_gib)),
                   FALSE, aws_catalog,
                   Append(azure_cache,
                          [region |-> az_region, catalog |-> got.catalog]),
                   << << <<"a", "z", "u", "r", "e">>, az_region >> >>)

\* recommend_row, lines 383-390, with the region to use and the catalog
\* held after the lazy fetch.
recommend_aws(row, vcpu, mem_gib, aws_catalog, azure_cache, aws_region, held) ==
    IF aws_region = CNone \/ aws_region = CEmpty
    THEN RowResult(row, TRUE, aws_catalog, azure_cache, <<>>)
    ELSE RowResult(sized_record(row, <<"a", "w", "s">>, aws_region, vcpu, mem_gib, held,
                                pick_instance(held[1],
                                              row_profile(row, vcpu, mem_gib),
                                              vcpu, mem_gib)),
                   FALSE, held, azure_cache,
                   IF aws_catalog = None
                   THEN << << <<"a", "w", "s">>, StrOf(aws_region) >> >> ELSE <<>>)

\* recommend_row, lines 374-390: the branch of the run's cloud.
recommend_sized(row, default_cloud, region, aws_catalog, azure_cache, vcpu, mem_gib, az_region, aws_region) ==
    IF default_cloud = <<"a", "z", "u", "r", "e">>
    THEN recommend_azure(row, vcpu, mem_gib, aws_catalog, azure_cache,
                         az_region, CacheGet(azure_cache, az_region),
                         fetch_azure_vm_catalog(az_region))
    ELSE recommend_aws(row, vcpu, mem_gib, aws_catalog, azure_cache,
                       aws_region,
                       IF aws_catalog # None THEN aws_catalog
                       ELSE Some(fetch_instance_catalog(StrOf(aws_region)).catalog))

\* recommend_row(row), with the state it closes over.
recommend_row(row, default_cloud, region, aws_catalog, azure_cache) ==
    IF ~IntOf(row.vcpu).ok \/ ~FloatOf(row.memory_gib).ok
    THEN RowResult(invalid_record(row, default_cloud), FALSE, aws_catalog,
                   azure_cache, <<>>)
    ELSE recommend_sized(row, default_cloud, region, aws_catalog, azure_cache,
                         IntOf(row.vcpu).v, FloatOf(row.memory_gib).f,
                         normalize_azure_region(
                             StrOf(CellOr(row.region, CStr(<<"e", "a", "s", "t", "u", "s">>)))),
                         CellOr(row.region,
                                IF region = None THEN CNone
                                ELSE CStr(region[1])))

\* validate_dataframe(df): the three index lists, in row order, and the
\* report, one entry per row.  Rows are numbered from 1 here; res holds
\* validate_row of each row.
\* IdxWhere that takes every row, whatever its status.
IdxWhere_mut(res, status) == [i \in 1..Len(res) |-> i]

IdxWhere(res, status) ==
    LET RECURSIVE Walk(_)
        Walk(i) == IF i > Len(res) THEN <<>>
                   ELSE IF res[i].status = status
                        THEN << i >> \o Walk(i + 1)
                        ELSE Walk(i + 1)
    IN  Walk(1)

ReportOf(res) ==
    [i \in 1..Len(res) |->
        [row_index    |-> i,
         status       |-> res[i].status,
         blocking_for |-> res[i].blocking_for,
         issues       |-> res[i].issues]]

Partition(res) ==
    [ok_idx       |-> IdxWhere(res, "ok"),
     rec_only_idx |-> IdxWhere(res, "rec_only"),
     error_idx    |-> IdxWhere(res, "error"),
     report       |-> ReportOf(res)]

validate_dataframe(df) ==
    Partition([i \in 1..Len(df) |-> validate_row(df[i])])

\* recommend_cmd, lines 313-317: the command line's cloud replaces every
\* row's cloud column, and its region, when given, every row's region.
cli_overrides(df, cloud, region) ==
    [i \in 1..Len(df) |->
        [df[i] EXCEPT !.cloud  = CStr(Lower(cloud)),
                      !.region = IF region = None THEN @ ELSE CStr(region[1])]]

\* An input row of a run: the validator's columns and the id column.
RunRow(id, cloud, region, vcpu, memory_gib, os, profile) ==
    [id |-> CNum(id * Milli)]
    @@ Row(cloud, region, vcpu, memory_gib, os, CStr(<<"o", "n", "d", "e", "m", "a", "n", "d">>), profile,
           CNaN, CNum(50 * Milli), CStr(<<"g", "p", "3">>), CNaN, CNaN)

\* The input rows a run draws from, by position in the file.
RunTemplates(id) ==
    { RunRow(id, CStr(<<"a", "w", "s">>), CStr(<<"u", "s", "-", "e", "a", "s", "t", "-", "1">>), CNum(4000), CNum(16000),
             CStr(<<"L", "i", "n", "u", "x">>), CNaN),
      RunRow(id, CNaN, CStr(<<"u", "s", "-", "w", "e", "s", "t", "-", "2">>), CNum(4000), CNum(24000),
             CNaN, CStr(<<"M", "e", "m", "o", "r", "y">>)),
      RunRow(id, CStr(<<"a", "w", "s">>), CStr(<<"m", "a", "r", "s">>), CNum(4000), CNum(16000),
             CStr(<<"L", "i", "n", "u", "x">>), CNaN),
      RunRow(id, CStr(<<"a", "w", "s">>), CStr(<<"u", "s", "-", "e", "a", "s", "t", "-", "1">>), CNaN, CNum(16000),
             CStr(<<"L", "i", "n", "u", "x">>), CNaN),
      RunRow(id, CStr(<<"a", "w", "s">>), CStr(<<"u", "s", "-", "e", "a", "s", "t", "-", "1">>), CNum(64000), CNum(16000),
             CStr(<<"L", "i", "n", "u", "x">>), CNaN),
      RunRow(id, CStr(<<"a", "z", "u", "r", "e">>), CStr(<<"u", "s", "-", "e", "a", "s", "t", "-", "1">>), CNum(2000), CNum(4000),
             CStr(<<"L", "i", "n", "u", "x">>), CNaN),
      RunRow(id, CStr(<<"a", "z", "u", "r", "e">>), CStr(<<"E", "a", "s", "t", " ", "U", "S">>), CNum(4000), CNum(16000),
             CStr(<<"w", "i", "n", "d", "o", "w", "s">>), CNaN),
      RunRow(id, CStr(<<"A", "z", "u", "r", "e">>), CStr(<<"w", "e", "s", "t", "u", "s">>), CNum(2000), CNum(4000),
             CNaN, CNaN),
      RunRow(id, CStr(<<"a", "z", "u", "r", "e">>), CStr(<<"e", "a", "s", "t", "u", "s">>), CNum(16000), CNaN,
             CStr(<<"L", "i", "n", "u", "x">>), CNaN) }

MaxRows == 2

\* The input files of at most n rows.
RECURSIVE InputsOver(_)
InputsOver(n) ==
    IF n = 0 THEN { <<>> }
    ELSE LET shorter == InputsOver(n - 1)
         IN  shorter \cup
             { Append(f, r) : f \in { g \in shorter : Len(g) = n - 1 },
                              r \in RunTemplates(n) }

RunCommands ==
    [name : {"recommend"}, cloud : { <<"a", "w", "s">>, <<"a", "z", "u", "r", "e">> },
     region : { None, Some(<<"u", "s", "-", "w", "e", "s", "t", "-", "2">>) }, strict : BOOLEAN,
     azure_ready : {TRUE}]
    \cup [name : {"recommend"}, cloud : { <<"a", "z", "u", "r", "e">> }, region : { None },
          strict : {FALSE}, azure_ready : {FALSE}]
    \cup [name : {"validate"}, cloud : { <<>> }, region : { None },
          strict : BOOLEAN, azure_ready : {TRUE}]

VARIABLES run_cmd, run_input, run_df, run_idx, run_report, run_results,
          run_aws_catalog, run_azure_cache, run_fetched, run_pos,
          run_written, run_pc, run_exit

run_vars == << run_cmd, run_input, run_df, run_idx, run_report, run_results,
               run_aws_catalog, run_azure_cache, run_fetched, run_pos,
               run_written, run_pc, run_exit >>

NoIdx == [ok_idx |-> <<>>, rec_only_idx |-> <<>>, error_idx |-> <<>>]

RunFresh ==
    /\ run_df = <<>>
    /\ run_idx = NoIdx
    /\ run_report = None
    /\ run_results = <<>>
    /\ run_aws_catalog = None
    /\ run_azure_cache = <<>>
    /\ run_fetched = <<>>
    /\ run_pos = 0
    /\ run_written = None
    /\ run_exit = None

RunIdle ==
    /\ run_cmd = [name |-> "none", cloud |-> <<>>, region |-> None,
                  strict |-> FALSE, azure_ready |-> TRUE]
    /\ run_input = <<>>
    /\ run_pc = "idle"
    /\ RunFresh

RunInit ==
    /\ run_cmd \in RunCommands
    /\ run_input \in InputsOver(MaxRows)
    /\ run_pc = "start"
    /\ RunFresh

\* ok_idx + rec_only_idx, the order of the sizing loop.
RunTodo == run_idx.ok_idx \o run_idx.rec_only_idx

Exit(code) ==
    /\ run_exit' = Some(code)
    /\ run_pc' = "done"

\* The validator's verdict is kept and the report is written.
Validated(v) ==
    /\ run_idx' = [ok_idx |-> v.ok_idx, rec_only_idx |-> v.rec_only_idx,
                   error_idx |-> v.error_idx]
    /\ run_report' = Some(v.report)

\* strict and (len(error_idx) > 0 or len(rec_only_idx) > 0)
StrictFails(v) ==
    run_cmd.strict /\ (Len(v.error_idx) > 0 \/ Len(v.rec_only_idx) > 0)

\* recommend_cmd, lines 329-349, on the validator's verdict v.
RecommendGate(v) ==
    /\ Validated(v)
    /\ IF StrictFails(v)
       THEN Exit(2)
       ELSE /\ run_pc' = "loop"
            /\ UNCHANGED run_exit

\* recommend_cmd, lines 302-349: load, override, preflight, validate, write
\* the report, and the --strict gate.
RecommendLoad ==
    /\ run_pc = "start"
    /\ run_cmd.name = "recommend"
    /\ run_df' = cli_overrides(run_input, run_cmd.cloud, run_cmd.region)
    /\ IF cloud_from_str(run_cmd.cloud) = <<"a", "z", "u", "r", "e">> /\ ~run_cmd.azure_ready
       THEN /\ Exit(2)
            /\ UNCHANGED << run_idx, run_report >>
       ELSE RecommendGate(validate_dataframe(run_df'))
    /\ UNCHANGED << run_cmd, run_input, run_results, run_aws_catalog,
                    run_azure_cache, run_fetched, run_pos, run_written >>

\* recommend_cmd, lines 427-428: one turn of the sizing loop.
RecommendRow ==
    /\ run_pc = "loop"
    /\ run_pos < Len(RunTodo)
    /\ LET r == recommend_row(run_df[RunTodo[run_pos + 1]],
                              cloud_from_str(run_cmd.cloud), run_cmd.region,
                              run_aws_catalog, run_azure_cache)
       IN  /\ run_fetched' = run_fetched \o r.fetched
           /\ IF r.raised
              THEN /\ Exit(1)
                   /\ UNCHANGED << run_results, run_aws_catalog,
                                   run_azure_cache, run_pos >>
              ELSE /\ run_results' = Append(run_results, r.out)
                   /\ run_aws_catalog' = r.aws_catalog
                   /\ run_azure_cache' = r.azure_cache
                   /\ run_pos' = run_pos + 1
                   /\ UNCHANGED << run_pc, run_exit >>
    /\ UNCHANGED << run_cmd, run_input, run_df, run_idx, run_report,
                    run_written >>

\* recommend_cmd, lines 430-447: after the loop, nothing to write is exit 2,
\* else the results are written.
RecommendWrite ==
    /\ run_pc = "loop"
    /\ run_pos = Len(RunTodo)
    /\ IF run_results = <<>>
       THEN /\ Exit(2)
            /\ UNCHANGED run_written
       ELSE /\ run_written' = Some(run_results)
            /\ Exit(0)
    /\ UNCHANGED << run_cmd, run_input, run_df, run_idx, run_report,
                    run_results, run_aws_catalog, run_azure_cache,
                    run_fetched, run_pos >>

\* validate_cmd, lines 489-493, on the validator's verdict v.
ValidateGate(v) ==
    /\ Validated(v)
    /\ IF StrictFails(v) THEN Exit(2) ELSE Exit(0)

\* validate_cmd: validate, write the report, and the --strict gate.
ValidateCmd ==
    /\ run_pc = "start"
    /\ run_cmd.name = "validate"
    /\ run_df' = run_input
    /\ ValidateGate(validate_dataframe(run_input))
    /\ UNCHANGED << run_cmd, run_input, run_results, run_aws_catalog,
                    run_azure_cache, run_fetched, run_pos, run_written >>

\* ------------------------------------------------------------------------
\* pricing.py: rates, lookups and the monthly calculators
\* ------------------------------------------------------------------------

\* Money before rounding counts millionths of a dollar; a rounded amount,
\* and the text "%.2f" writes for it, counts cents.
MicroPerCent == 10000

\* The default rates, in thousandths of a dollar per GB.
S3_STD_GB_MONTH  == 23
EBS_GP3_GB_MONTH == 80
EBS_IO1_GB_MONTH == 125
DTO_GB_PRICE     == 90

\* NETWORK_PROFILE_TO_GB, in GB per month.
NETWORK_PROFILE_TO_GB ==
    { << <<"l", "o", "w">>, 50 >>, << <<"m", "e", "d", "i", "u", "m">>, 500 >>, << <<"h", "i", "g", "h">>, 5000 >> }

\* The regions AWS_REGION_TO_LOCATION has a location for.
AWS_REGION_TO_LOCATION ==
    ALL_AWS_REGIONS \cup { <<"e", "u", "-", "s", "o", "u", "t", "h", "-", "2">>, <<"a", "p", "-", "s", "o", "u", "t", "h", "e", "a", "s", "t", "-", "4">> }

\* pricing.normalize_region(region)
normalize_region(region) ==
    IF Lower(Strip(region)) \in AWS_REGION_TO_LOCATION
    THEN Lower(Strip(region))
    ELSE IF \E e \in _AWS_REGION_ALIASES : e[1] = Lower(Strip(region))
    THEN TableGet(_AWS_REGION_ALIASES, Lower(Strip(region)), <<>>)
    ELSE IF Replace(Lower(Strip(region)), <<"g", "o", "v", "c", "l", "o", "u", "d", "-", "u", "s">>, <<"u", "s", "-", "g", "o", "v">>)
            \in AWS_REGION_TO_LOCATION
    THEN Replace(Lower(Strip(region)), <<"g", "o", "v", "c", "l", "o", "u", "d", "-", "u", "s">>, <<"u", "s", "-", "g", "o", "v">>)
    ELSE Lower(Strip(region))

\* _pricing_first_usd(pl_obj): the first price dimension with a USD text
\* and an hourly or per-quantity unit.  A product is the list of its
\* dimensions [usd, unit], usd an Optional amount.
RECURSIVE _pricing_first_usd(_)
_pricing_first_usd(dims) ==
    IF dims = <<>> THEN None
    ELSE IF Head(dims).usd # None /\ Head(dims).unit \in {"Hrs", "Quantity"}
    THEN Head(dims).usd
    ELSE _pricing_first_usd(Tail(dims))

\* The loop over resp["PriceList"]: the first product that yields a price.
RECURSIVE first_priced(_)
first_priced(price_list) ==
    IF price_list = <<>> THEN None
    ELSE IF _pricing_first_usd(Head(price_list)) # None
    THEN _pricing_first_usd(Head(price_list))
    ELSE first_priced(Tail(price_list))

\* The outcome of a lookup: a price, or nothing, or the exception that
\* leaves the function.
Found(price) == [raised |-> FALSE, price |-> price]
Raised       == [raised |-> TRUE, price |-> None]

\* price_ec2_ondemand(instance_type, region, os_name), on the answer resp
\* of get_products: [ok, PriceList], ok = FALSE when the call raises (a
\* timeout, a ClientError), which nothing here catches.
price_ec2_ondemand(region, resp) ==
    IF normalize_region(region) \notin AWS_REGION_TO_LOCATION THEN Found(None)
    ELSE IF ~resp.ok THEN Raised
    ELSE Found(first_priced(resp.PriceList))

\* price_rds_ondemand(engine, instance_class, region, ...), on the answer
\* resp of get_products; the call's exception is caught.
price_rds_ondemand(region, resp) ==
    IF normalize_region(region) \notin AWS_REGION_TO_LOCATION THEN Found(None)
    ELSE IF ~resp.ok THEN Found(None)
    ELSE Found(first_priced(resp.PriceList))

\* _azure_fetch_retail_prices, lines 382-402: the least price among the
\* hourly items of the response that are Windows items (windows = TRUE) or
\* are not, None when there is none.  An item is [windows, unit, price].
RECURSIVE az_best(_, _)
az_best(items, windows) ==
    IF items = <<>> THEN None
    ELSE IF \/ Head(items).unit \notin {"1 Hour", "Hour"}
            \/ Head(items).windows # windows
    THEN az_best(Tail(items), windows)
    ELSE IF az_best(Tail(items), windows) = None
    THEN Some(Head(items).price)
    ELSE Some(IF Head(items).price < az_best(Tail(items), windows)[1]
              THEN Head(items).price
              ELSE az_best(Tail(items), windows)[1])

\* _azure_fetch_retail_prices(region, sku_core, os_name), on the answer resp
\* of requests.get: [ok, status, items]; ok = FALSE when the request raises
\* (a timeout, a connection error), which nothing here catches.
_azure_fetch_retail_prices(os_name, resp) ==
    IF ~resp.ok THEN Raised
    ELSE IF resp.status # 200 THEN Found(None)
    ELSE IF Lower(Strip(os_name)) = <<"w", "i", "n", "d", "o", "w", "s">>
    THEN Found(IF az_best(resp.items, TRUE) # None
               THEN az_best(resp.items, TRUE) ELSE az_best(resp.items, FALSE))
    ELSE Found(IF az_best(resp.items, FALSE) # None
               THEN az_best(resp.items, FALSE) ELSE az_best(resp.items, TRUE))

\* _AZ_OS_UPLIFT.get(os, 0.0), in millionths of a dollar per hour.
_AZ_OS_UPLIFT(os) ==
    IF os = <<"w", "i", "n", "d", "o", "w", "s">> THEN 120000
    ELSE IF os = <<"r", "h", "e", "l">> THEN 90000
    ELSE IF os = <<"s", "u", "s", "e">> THEN 70000
    ELSE 0

_AZ_BASE_DEFAULT_HOURLY == 200000
AZ_LICENSED_UPLIFT      == 10000

\* azure_vm_price_hourly(region, sku, os_name, license_model), with no price
\* cache and no override file: the live price, else base plus uplift.
azure_vm_price_hourly(os_name, license_model, resp) ==
    IF _azure_fetch_retail_prices(os_name, resp).raised THEN Raised
    ELSE IF _azure_fetch_retail_prices(os_name, resp).price # None
    THEN Found(_azure_fetch_retail_prices(os_name, resp).price)
    ELSE Found(Some(_AZ_BASE_DEFAULT_HOURLY
                    + _AZ_OS_UPLIFT(Lower(Strip(os_name)))
                    + (IF Lower(Strip(license_model)) # <<"b", "y", "o", "l">>
                       THEN AZ_LICENSED_UPLIFT ELSE 0)))

\* max(0.0, x) of a float in thousandths; a NaN is not greater than 0.0.
Max0(x) == IF x.nan \/ x.v <= 0 THEN 0 ELSE x.v

\* monthly_compute_cost(price_per_hour, hours): cents; hours are whole.
monthly_compute_cost(price_per_hour, hours) ==
    RoundHalfEven((IF price_per_hour = None THEN 0 ELSE price_per_hour[1])
                  * hours, MicroPerCent)

\* monthly_ebs_cost(ebs_gb, ebs_type)
monthly_ebs_cost(ebs_gb, ebs_type) ==
    RoundHalfEven(Max0(ebs_gb)
                  * (IF Lower(Strip(IF ebs_type = <<>> THEN <<"g", "p", "3">> ELSE ebs_type))
                        = <<"i", "o", "1">>
                     THEN EBS_IO1_GB_MONTH ELSE EBS_GP3_GB_MONTH),
                  MicroPerCent)

\* monthly_s3_cost(s3_gb)
monthly_s3_cost(s3_gb) ==
    RoundHalfEven(Max0(s3_gb) * S3_STD_GB_MONTH, MicroPerCent)

\* monthly_network_cost(profile)
monthly_network_cost(profile) ==
    IF profile = <<>> THEN 0
    ELSE RoundHalfEven(TableGet(NETWORK_PROFILE_TO_GB,
                                Lower(Strip(profile)), 0)
                       * Milli * DTO_GB_PRICE, MicroPerCent)

\* monthly_rds_cost(engine, instance_class, region, license_model, multi_az,
\* hours)
monthly_rds_cost(region, hours, resp) ==
    monthly_compute_cost(price_rds_ondemand(region, resp).price, hours)

\* ------------------------------------------------------------------------
\* main.py: price_cmd
\* ------------------------------------------------------------------------

\* as_float(x, 0.0): thousandths; None, "" and a text that is no number
\* give the default.
as_float(x) ==
    IF x = CNone \/ x = CEmpty \/ ~FloatOf(x).ok THEN F(0) ELSE FloatOf(x).f

\* The text "%.2f" writes for an amount of cents, as the number it reads
\* back as (a number cell counts thousandths).
Usd2(cents) == CNum(cents * MilliPerCenti)

\* A row of a recommendation file read by csv.DictReader: every cell is
\* text.  The file has these columns and no others (no instance_type, no
\* db_storage_gb, no Azure SQL columns).
PriceRowOf(id, cloud, region, vcpu, memory_gib, itype, os, license_model, ebs_gb, s3_gb, network_profile, db_engine, db_instance_class) ==
    [id |-> CNum(id * Milli), cloud |-> CStr(cloud), region |-> CStr(region),
     vcpu |-> CStr(vcpu), memory_gib |-> CStr(memory_gib),
     profile |-> CEmpty, recommended_instance_type |-> CStr(itype),
     os |-> CStr(os), license_model |-> CStr(license_model),
     ebs_gb |-> CStr(ebs_gb), ebs_type |-> CEmpty, s3_gb |-> CStr(s3_gb),
     network_profile |-> CStr(network_profile),
     db_engine |-> CStr(db_engine),
     db_instance_class |-> CStr(db_instance_class),
     multi_az |-> CEmpty, pricing_note |-> CEmpty]

\* price_cmd, lines 558-566: the clouds the file names, blank ones dropped.
seen_clouds(rows) ==
    { Lower(Strip(StrOf(rows[i].cloud))) : i \in 1..Len(rows) } \ { <<>> }

\* price_cmd, lines 560-566: the file names a cloud other than the run's.
cloud_mismatch(rows, expected_cloud) ==
    /\ seen_clouds(rows) # {}
    /\ \/ Cardinality(seen_clouds(rows)) > 1
       \/ seen_clouds(rows) # { expected_cloud }

\* "sql" in engine and "server" in engine
IsSqlServer(engine) == Contains(engine, <<"s", "q", "l">>) /\ Contains(engine, <<"s", "e", "r", "v", "e", "r">>)

\* price_cmd.needs_reco(r)
needs_reco(r, expected_cloud) ==
    \/ /\ Lower(Strip(StrOf(CellOr(r.cloud, CStr(expected_cloud))))) = <<"a", "w", "s">>
       /\ IsSqlServer(Lower(Strip(StrOf(r.db_engine))))
    \/ r.recommended_instance_type = CEmpty

\* price_cmd, lines 671-684: what --no-auto-recommend refuses.
strict_bad(r) ==
    \/ r.recommended_instance_type = CEmpty
    \/ /\ IsSqlServer(Lower(StrOf(r.db_engine)))
       /\ \/ r.db_instance_class = CEmpty
          \/ Lower(StrOf(r.license_model))
                \notin { <<>>, <<"l", "i", "c", "e", "n", "s", "e", "_", "i", "n", "c", "l", "u", "d", "e", "d">>, <<"l", "i", "c", "e", "n", "s", "e", "-", "i", "n", "c", "l", "u", "d", "e", "d">> }

\* int(float(x)): [ok, v]
IntOfFloat(p) ==
    IF ~p.ok \/ p.f.nan THEN [ok |-> FALSE, v |-> 0]
    ELSE [ok |-> TRUE, v |-> p.f.v \div Milli]

\* What a step leaves: the rows, or that it raised.
Rows(rows)  == [raised |-> FALSE, rows |-> rows]
RowsRaised  == [raised |-> TRUE, rows |-> <<>>]

\* price_cmd._reco_row, the three columns that are merged back, given the
\* chosen shape.
reco_merge(r, region, chosen) ==
    [r EXCEPT !.region = region,
              !.recommended_instance_type =
                  IF chosen = None THEN @ ELSE CStr(chosen[1].instanceType),
              !.db_instance_class =
                  IF /\ Strip(StrOf(r.db_engine)) # <<>>
                     /\ r.db_instance_class = CEmpty
                     /\ chosen # None
                  THEN CStr(IF StartsWith(chosen[1].instanceType, <<"d", "b", ".">>)
                            THEN chosen[1].instanceType
                            ELSE <<"d", "b", ".">> \o chosen[1].instanceType)
                  ELSE @]

\* price_cmd._reco_row for AWS (lines 632-643) on the run's catalog.
reco_row_aws(r, cat, vcpu, mem) ==
    reco_merge(r, r.region,
               pick_instance(cat,
                             IF Lower(Strip(StrOf(r.profile))) # <<>>
                             THEN Lower(Strip(StrOf(r.profile)))
                             ELSE infer_profile(vcpu, mem),
                             vcpu, mem))

\* price_cmd._reco_row for Azure (lines 648-656) on the region's catalog.
reco_row_azure(r, azr, cat, vcpu, mem) ==
    [reco_merge(r, CStr(azr), pick_azure_size(cat, vcpu, mem))
        EXCEPT !.db_instance_class = r.db_instance_class]

\* One row of the auto-recommend pass: [ok, row]; ok = FALSE when
\* int(float(vcpu)), float(memory_gib) or the catalog fetch raises.
reco_row(r, expected_cloud, aws_cat, azr, vcpu, mem) ==
    IF ~vcpu.ok \/ ~mem.ok THEN [ok |-> FALSE, row |-> r]
    ELSE IF expected_cloud = <<"a", "w", "s">>
    THEN [ok |-> TRUE, row |-> reco_row_aws(r, aws_cat, vcpu.v, mem.f)]
    ELSE IF ~fetch_azure_vm_catalog(azr).ok THEN [ok |-> FALSE, row |-> r]
    ELSE [ok |-> TRUE,
          row |-> reco_row_azure(r, azr, fetch_azure_vm_catalog(azr).catalog,
                                 vcpu.v, mem.f)]

\* The region the AWS auto-recommend pass fetches its catalog for (lines
\* 607-627): the first non-blank region among the rows to fix, else the
\* command line's, else the first non-blank region of the file.
RECURSIVE first_region(_, _)
first_region(rows, keep) ==
    IF rows = <<>> THEN <<>>
    ELSE IF Head(rows) \in keep /\ Strip(StrOf(Head(rows).region)) # <<>>
    THEN Strip(StrOf(Head(rows).region))
    ELSE first_region(Tail(rows), keep)

auto_region(rows, region, expected_cloud) ==
    IF first_region(rows, {r \in Range(rows) : needs_reco(r, expected_cloud)})
          # <<>>
    THEN first_region(rows, {r \in Range(rows) : needs_reco(r, expected_cloud)})
    ELSE IF region # None /\ region[1] # <<>> THEN region[1]
    ELSE first_region(rows, Range(rows))

\* price_cmd, lines 574-666: the rows after the auto-recommend pass, fixed
\* being reco_row of every row.
auto_recommend(rows, expected_cloud, aws_region, fixed) ==
    IF \A i \in 1..Len(rows) : ~needs_reco(rows[i], expected_cloud)
    THEN Rows(rows)
    ELSE IF expected_cloud = <<"a", "w", "s">> /\ aws_region = <<>> THEN RowsRaised
    ELSE IF \E i \in 1..Len(rows) :
               needs_reco(rows[i], expected_cloud) /\ ~fixed[i].ok
    THEN RowsRaised
    ELSE Rows([i \in 1..Len(rows) |->
                 IF needs_reco(rows[i], expected_cloud)
                 THEN fixed[i].row ELSE rows[i]])

\* price_cmd, lines 554-684: the rows the pricing loop starts from, or the
\* exit before it.
price_prepare(rows, cmd, expected_cloud, aws_region) ==
    IF rows = <<>> \/ cloud_mismatch(rows, expected_cloud) THEN RowsRaised
    ELSE IF cmd.no_auto_recommend
    THEN IF \E i \in 1..Len(rows) : strict_bad(rows[i])
         THEN RowsRaised ELSE Rows(rows)
    ELSE auto_recommend(rows, expected_cloud, aws_region,
            [i \in 1..Len(rows) |->
                reco_row(rows[i], expected_cloud,
                         fetch_instance_catalog(aws_region).catalog,
                         normalize_azure_region(
                            StrOf(CellOr(rows[i].region, CStr(<<"e", "a", "s", "t", "u", "s">>)))),
                         IntOfFloat(IF rows[i].vcpu = CNone
                                    THEN [ok |-> TRUE, f |-> F(0)]
                                    ELSE FloatOf(rows[i].vcpu)),
                         IF rows[i].memory_gib = CNone
                         THEN [ok |-> TRUE, f |-> F(0)]
                         ELSE FloatOf(rows[i].memory_gib))])

\* The catalog fetches of the Azure auto-recommend pass (lines 648-658):
\* _reco_row asks fetch_azure_vm_catalog for every row it is applied to,
\* after the row's numbers converted; a call that raises ends the pass.
RECURSIVE azure_fetches(_, _)
azure_fetches(rows, expected_cloud) ==
    IF rows = <<>> THEN <<>>
    ELSE IF ~needs_reco(Head(rows), expected_cloud)
    THEN azure_fetches(Tail(rows), expected_cloud)
    ELSE IF \/ ~IntOfFloat(IF Head(rows).vcpu = CNone
                           THEN [ok |-> TRUE, f |-> F(0)]
                           ELSE FloatOf(Head(rows).vcpu)).ok
            \/ (Head(rows).memory_gib # CNone
                  /\ ~FloatOf(Head(rows).memory_gib).ok)
    THEN <<>>
    ELSE << << <<"a", "z", "u", "r", "e">>,
               normalize_azure_region(
                   StrOf(CellOr(Head(rows).region, CStr(<<"e", "a", "s", "t", "u", "s">>)))) >> >>
         \o (IF fetch_azure_vm_catalog(normalize_azure_region(
                    StrOf(CellOr(Head(rows).region, CStr(<<"e", "a", "s", "t", "u", "s">>))))).ok
             THEN azure_fetches(Tail(rows), expected_cloud)
             ELSE <<>>)

\* price_cmd, lines 554-658: the catalog fetches made before the pricing
\* loop, as (cloud, region) pairs in the order of the calls.  The AWS pass
\* fetches once, for the region it settled on (line 629).
price_fetches(rows, cmd, expected_cloud, aws_region) ==
    IF \/ rows = <<>> \/ cloud_mismatch(rows, expected_cloud)
       \/ cmd.no_auto_recommend
       \/ \A i \in 1..Len(rows) : ~needs_reco(rows[i], expected_cloud)
    THEN <<>>
    ELSE IF expected_cloud = <<"a", "w", "s">>
    THEN IF aws_region = <<>> THEN <<>>
         ELSE << << <<"a", "w", "s">>, aws_region >> >>
    ELSE azure_fetches(rows, expected_cloud)

NoteMissing == <<"M", "i", "s", "s", "i", "n", "g", " ", "i", "n", "s", "t", "a", "n", "c", "e", "_", "t", "y", "p", "e", " ", "o", "r", " ", "r", "e", "g", "i", "o", "n">>
NoteNoEc2   == <<"N", "o", " ", "E", "C", "2", " ", "p", "r", "i", "c", "e", " ", "f", "o", "u", "n", "d", " ", "(", "c", "h", "e", "c", "k", " ", "f", "i", "l", "t", "e", "r", "s", "/", "r", "e", "g", "i", "o", "n", "/", "O", "S", ")">>

\* What price_cmd's loop body leaves for a row: the record, or that it
\* raised.
Priced(out)  == [raised |-> FALSE, out |-> out]
PriceRaised  == [raised |-> TRUE, out |-> [id |-> CNone]]

\* price_cmd, lines 745-785: monthly_db_usd in cents.  The class falls back
\* to one derived from the instance type when the engine is given; the
\* price is looked up when engine, class and region are all there.
db_monthly(r, region_row, hours, rds) ==
    IF /\ Strip(StrOf(r.db_engine)) # <<>>
       /\ \/ Strip(StrOf(r.db_instance_class)) # <<>>
          \/ Strip(StrOf(r.recommended_instance_type)) # <<>>
       /\ region_row # CNone
    THEN monthly_rds_cost(StrOf(region_row), hours, rds)
    ELSE 0

\* price_cmd, lines 750-754: the resolved_db_instance_class column, None
\* where the key is not set.
resolved_db_instance_class(r) ==
    IF Strip(StrOf(r.db_instance_class)) # <<>>
    THEN CStr(Strip(StrOf(r.db_instance_class)))
    ELSE IF Strip(StrOf(r.db_engine)) # <<>> THEN CEmpty
    ELSE CNone

total_usd_mut(compute, ebs, s3, network, db) ==
    Usd2(RoundHalfEven(as_float(compute).v + as_float(ebs).v + as_float(s3).v
                       + as_float(network).v,
                       MilliPerCenti))

\* price_cmd, lines 825-833: the total, from the five texts written.
total_usd(compute, ebs, s3, network, db) ==
    Usd2(RoundHalfEven(as_float(compute).v + as_float(ebs).v + as_float(s3).v
                       + as_float(network).v + as_float(db).v,
                       MilliPerCenti))

\* The columns the loop body writes, beside the row's own; the hourly price
\* ("%.6f") counts millionths of a dollar.
PricedKeys(cloud, note, per_hour, compute, ebs, s3, network, db, resolved, no_monthly) ==
    [cloud |-> CStr(cloud), provider |-> CStr(cloud), pricing_note |-> note,
     price_per_hour_usd |-> per_hour,
     monthly_compute_usd |-> IF no_monthly THEN CEmpty ELSE compute,
     monthly_ebs_usd     |-> IF no_monthly THEN CEmpty ELSE ebs,
     monthly_s3_usd      |-> IF no_monthly THEN CEmpty ELSE s3,
     monthly_network_usd |-> IF no_monthly THEN CEmpty ELSE network,
     monthly_db_usd      |-> IF no_monthly THEN CEmpty ELSE db,
     monthly_total_usd   |-> IF no_monthly THEN CEmpty
                             ELSE total_usd(compute, ebs, s3, network, db),
     resolved_db_instance_class |-> IF no_monthly THEN CNone ELSE resolved]

\* price_cmd, lines 718-836: the record of a row, from its hourly compute
\* price and its note.
priced_record(r, cmd, expected_cloud, region_row, compute_price, note, rds) ==
    PricedKeys(expected_cloud, note,
               IF compute_price = None THEN CEmpty ELSE CNum(compute_price[1]),
               Usd2(monthly_compute_cost(compute_price, cmd.hours)),
               Usd2(monthly_ebs_cost(as_float(r.ebs_gb), Strip(StrOf(r.ebs_type)))),
               Usd2(monthly_s3_cost(as_float(r.s3_gb))),
               Usd2(monthly_network_cost(Strip(StrOf(r.network_profile)))),
               Usd2(db_monthly(r, region_row, cmd.hours, rds)),
               resolved_db_instance_class(r), cmd.no_monthly)
    @@ r

\* price_ec2_ondemand, lines 151-159: get_products answers for the
\* operatingSystem filter it is given.
ec2_answer(os_name, w) ==
    IF os_name = <<"L", "i", "n", "u", "x">> THEN w.ec2 ELSE w.ec2_licensed

\* price_rds_ondemand, lines 230-243: the licenseModel filter of the request
\* is "Bring your own license" when the license model is byol and "License
\* included" otherwise, and get_products answers for the filter it is given.
rds_answer(license_model, w) ==
    IF Lower(Strip(license_model)) # <<"b", "y", "o", "l">> THEN w.rds ELSE w.rds_byol

\* price_cmd, lines 701-716: the hourly compute price, looked up for the
\* run's cloud, and the note.
price_compute(r, cmd, expected_cloud, region_row, os_for_compute, license_model, w) ==
    IF r.recommended_instance_type = CEmpty \/ region_row = CNone
    THEN Priced(priced_record(r, cmd, expected_cloud, region_row, None,
                              CStr(NoteMissing), rds_answer(license_model, w)))
    ELSE IF expected_cloud = <<"a", "z", "u", "r", "e">>
    THEN IF azure_vm_price_hourly(os_for_compute, license_model, w.az).raised
         THEN PriceRaised
         ELSE Priced(priced_record(r, cmd, expected_cloud, region_row,
                 azure_vm_price_hourly(os_for_compute, license_model, w.az).price,
                 r.pricing_note, rds_answer(license_model, w)))
    ELSE IF price_ec2_ondemand(StrOf(region_row), ec2_answer(os_for_compute, w)).raised
    THEN PriceRaised
    ELSE Priced(priced_record(r, cmd, expected_cloud, region_row,
                    price_ec2_ondemand(StrOf(region_row), ec2_answer(os_for_compute, w)).price,
                    IF price_ec2_ondemand(StrOf(region_row), ec2_answer(os_for_compute, w)).price # None
                    THEN r.pricing_note ELSE CStr(NoteNoEc2),
                    rds_answer(license_model, w)))

\* price_cmd, lines 693-699, with the row's operating system priced under
\* every license model.
price_licensed_mut(r, cmd, expected_cloud, region_row, license_model, w) ==
    price_compute(r, cmd, expected_cloud, region_row,
                  Strip(StrOf(CellOr(r.os, CStr(cmd.os_name)))),
                  license_model, w)

\* price_cmd, lines 693-699, with the row's license model resolved.
price_licensed(r, cmd, expected_cloud, region_row, license_model, w) ==
    price_compute(r, cmd, expected_cloud, region_row,
                  IF Lower(license_model) = <<"b", "y", "o", "l">> THEN <<"L", "i", "n", "u", "x">>
                  ELSE Strip(StrOf(CellOr(r.os, CStr(cmd.os_name)))),
                  license_model, w)

\* The body of price_cmd's loop for one row, in a world w of lookup answers.
price_row(r, cmd, expected_cloud, w) ==
    price_licensed(r, cmd, expected_cloud,
                   CellOr(r.region,
                          IF cmd.region # None /\ cmd.region[1] # <<>>
                          THEN CStr(cmd.region[1])
                          ELSE IF expected_cloud = <<"a", "z", "u", "r", "e">>
                          THEN CStr(<<"e", "a", "s", "t", "u", "s">>) ELSE CNone),
                   Strip(StrOf(CellOr(r.license_model,
                                      IF expected_cloud = <<"a", "w", "s">>
                                      THEN CStr(<<"A", "W", "S">>) ELSE CStr(<<"B", "Y", "O", "L">>)))),
                   w)

\* The answers get_products gives for EC2 and for RDS, and the answer the
\* Azure Retail Prices API gives: one world per lookup pattern.
Dim(usd, unit) == [usd |-> usd, unit |-> unit]
Ec2Answer(ok, list) == [ok |-> ok, PriceList |-> list]
AzItem(windows, unit, price) == [windows |-> windows, unit |-> unit, price |-> price]
AzAnswer(ok, status, items) == [ok |-> ok, status |-> status, items |-> items]

PriceWorlds ==
    { \* every lookup finds a price
      [ec2 |-> Ec2Answer(TRUE, << << Dim(None, "Hrs"),
                                     Dim(Some(5000), "GB-Mo"),
                                     Dim(Some(41600), "Hrs"),
                                     Dim(Some(990000), "Hrs") >> >>),
       ec2_licensed |-> Ec2Answer(TRUE, << << Dim(Some(60000), "Hrs") >> >>),
       rds |-> Ec2Answer(TRUE, << << Dim(Some(171000), "Hrs") >> >>),
       rds_byol |-> Ec2Answer(TRUE, << << Dim(Some(103000), "Hrs") >> >>),
       az  |-> AzAnswer(TRUE, 200, << AzItem(FALSE, "1 Hour", 230000),
                                    AzItem(FALSE, "1 Hour", 192000),
                                    AzItem(FALSE, "1 GB", 1000),
                                    AzItem(TRUE, "1 Hour", 376000) >>)],
      \* a round hourly price, no database price
      [ec2 |-> Ec2Answer(TRUE, << << Dim(Some(1000000), "Quantity") >> >>),
       ec2_licensed |-> Ec2Answer(TRUE, << << Dim(Some(1000000), "Quantity") >> >>),
       rds |-> Ec2Answer(TRUE, <<>>),
       rds_byol |-> Ec2Answer(TRUE, <<>>),
       az  |-> AzAnswer(TRUE, 200, << AzItem(TRUE, "1 Hour", 1000000) >>)],
      \* nothing matches
      [ec2 |-> Ec2Answer(TRUE, << << Dim(Some(5000), "GB-Mo") >> >>),
       ec2_licensed |-> Ec2Answer(TRUE, << << Dim(Some(5000), "GB-Mo") >> >>),
       rds |-> Ec2Answer(TRUE, <<>>),
       rds_byol |-> Ec2Answer(TRUE, <<>>),
       az  |-> AzAnswer(TRUE, 200, <<>>)],
      \* the price service answers with an error status
      [ec2 |-> Ec2Answer(TRUE, <<>>),
       ec2_licensed |-> Ec2Answer(TRUE, <<>>),
       rds |-> Ec2Answer(FALSE, <<>>),
       rds_byol |-> Ec2Answer(FALSE, <<>>),
       az  |-> AzAnswer(TRUE, 404, <<>>)],
      \* the request times out
      [ec2 |-> Ec2Answer(FALSE, <<>>),
       ec2_licensed |-> Ec2Answer(FALSE, <<>>),
       rds |-> Ec2Answer(FALSE, <<>>),
       rds_byol |-> Ec2Answer(FALSE, <<>>),
       az  |-> AzAnswer(FALSE, 0, <<>>)] }

\* The rows a recommendation file is made of, by position in the file.
PriceTemplates(id) ==
    { \* the worked total: 100.00 + 8.00 + 0.46 + 45.00 + 0.00
      PriceRowOf(id, <<"a", "w", "s">>, <<"u", "s", "-", "e", "a", "s", "t", "-", "1">>, <<"4">>, <<"1", "6">>, <<"m", "6", "i", ".", "x", "l", "a", "r", "g", "e">>,
                 <<"L", "i", "n", "u", "x">>, <<>>, <<"1", "0", "0">>, <<"2", "0">>, <<"m", "e", "d", "i", "u", "m">>, <<>>, <<>>),
      \* amounts that round: 1.5 GB of S3, 0.3 GB of EBS, and a database
      PriceRowOf(id, <<"A", "W", "S", " ">>, <<"a", "w", "s", " ", "g", "o", "v", "c", "l", "o", "u", "d", " ", "u", "s", "-", "w", "e", "s", "t">>, <<"4">>, <<"1", "6">>,
                 <<"m", "6", "i", ".", "x", "l", "a", "r", "g", "e">>, <<>>, <<"B", "Y", "O", "L">>, <<"0", ".", "3">>, <<"1", ".", "5">>, <<"l", "o", "w">>,
                 <<"p", "o", "s", "t", "g", "r", "e", "s">>, <<"d", "b", ".", "m", "6", "i", ".", "l", "a", "r", "g", "e">>),
      \* a database engine and no database instance class
      PriceRowOf(id, <<"a", "w", "s">>, <<"u", "s", "-", "e", "a", "s", "t", "-", "1">>, <<"4">>, <<"1", "6">>, <<"m", "6", "i", ".", "x", "l", "a", "r", "g", "e">>,
                 <<"L", "i", "n", "u", "x">>, <<>>, <<>>, <<>>, <<>>, <<"p", "o", "s", "t", "g", "r", "e", "s">>, <<>>),
      \* SQL Server under a license the customer brings
      PriceRowOf(id, <<"a", "w", "s">>, <<"u", "s", "-", "e", "a", "s", "t", "-", "1">>, <<"4">>, <<"1", "6">>, <<"m", "6", "i", ".", "x", "l", "a", "r", "g", "e">>,
                 <<"W", "i", "n", "d", "o", "w", "s">>, <<"B", "Y", "O", "L">>, <<>>, <<>>, <<>>, <<"S", "Q", "L", " ", "S", "e", "r", "v", "e", "r">>, <<"d", "b", ".", "m", "6", "i", ".", "x", "l", "a", "r", "g", "e">>),
      \* no instance type yet, and nothing in the catalog is large enough
      PriceRowOf(id, <<>>, <<"u", "s", "-", "e", "a", "s", "t", "-", "1">>, <<"6", "4">>, <<"1", "6">>, <<>>, <<"L", "i", "n", "u", "x">>, <<>>,
                 <<>>, <<>>, <<>>, <<>>, <<>>),
      \* no instance type and no usable vcpu
      PriceRowOf(id, <<"a", "w", "s">>, <<"u", "s", "-", "e", "a", "s", "t", "-", "1">>, <<>>, <<"1", "6">>, <<>>, <<"L", "i", "n", "u", "x">>, <<>>,
                 <<>>, <<>>, <<>>, <<>>, <<>>),
      \* no region
      PriceRowOf(id, <<>>, <<>>, <<"4">>, <<"1", "6">>, <<"m", "6", "i", ".", "x", "l", "a", "r", "g", "e">>, <<"L", "i", "n", "u", "x">>, <<>>,
                 <<"n", "a", "n">>, <<"-", "5">>, <<"h", "u", "g", "e">>, <<>>, <<>>),
      PriceRowOf(id, <<"a", "z", "u", "r", "e">>, <<"e", "a", "s", "t", "u", "s">>, <<"4">>, <<"1", "6">>, <<"S", "t", "a", "n", "d", "a", "r", "d", "_", "D", "4", "s", "_", "v", "5">>,
                 <<"W", "i", "n", "d", "o", "w", "s">>, <<>>, <<"1", "0", "0">>, <<"2", "0">>, <<"m", "e", "d", "i", "u", "m">>, <<>>, <<>>),
      PriceRowOf(id, <<>>, <<"E", "a", "s", "t", " ", "U", "S">>, <<"4">>, <<"1", "6">>, <<>>, <<"r", "h", "e", "l">>, <<"A", "H", "U", "B">>,
                 <<"1", "2", "8">>, <<"0">>, <<"h", "i", "g", "h">>, <<>>, <<>>) }

\* The recommendation files of at most n rows.
RECURSIVE PriceInputsOver(_)
PriceInputsOver(n) ==
    IF n = 0 THEN { <<>> }
    ELSE PriceInputsOver(n - 1) \cup
         { Append(f, r) : f \in { g \in PriceInputsOver(n - 1) : Len(g) = n - 1 },
                          r \in PriceTemplates(n) }

\* --hours-per-month: the default, a round one, and one below zero, which
\* click's type=float takes as it takes any number.
HOURS_PER_MONTH == 730
RoundHours      == 100
NegativeHours   == -10

PriceCommands ==
    [cloud : { <<"a", "w", "s">>, <<"a", "z", "u", "r", "e">> }, region : { None },
     os_name : { <<"L", "i", "n", "u", "x">> }, hours : { HOURS_PER_MONTH },
     no_monthly : BOOLEAN, no_auto_recommend : {FALSE}]
    \cup [cloud : { <<"a", "w", "s">> }, region : { None, Some(<<"u", "s", "-", "w", "e", "s", "t", "-", "2">>) },
          os_name : { <<"W", "i", "n", "d", "o", "w", "s">> }, hours : { RoundHours },
          no_monthly : {FALSE}, no_auto_recommend : BOOLEAN]
    \cup [cloud : { <<"a", "w", "s">> }, region : { None }, os_name : { <<"L", "i", "n", "u", "x">> },
          hours : { NegativeHours }, no_monthly : {FALSE},
          no_auto_recommend : {FALSE}]

\* ------------------------------------------------------------------------
\* summary.py: the rollup of a priced file
\* ------------------------------------------------------------------------

\* _load_table: pd.read_csv of a written cell; an empty cell reads as NaN.
_load_table(rows) ==
    [i \in 1..Len(rows) |->
        [f \in DOMAIN rows[i] |->
            IF rows[i][f] = CEmpty THEN CNaN ELSE rows[i][f]]]

\* _coerce_number(x): 0.0 for None, blank text and text that is no number.
_coerce_number(x) ==
    IF x = CNone \/ (x.t = "str" /\ Strip(x.s) = <<>>) THEN F(0)
    ELSE IF FloatOf(x).ok THEN FloatOf(x).f
    ELSE F(0)

\* df[col].apply(_coerce_number).sum(): Series.sum() skips NaN.
RECURSIVE column_sum(_, _)
column_sum_mut(df, col) ==
    IF df = <<>> THEN 0
    ELSE IF _coerce_number(Head(df)[col]).nan THEN 0
    ELSE _coerce_number(Head(df)[col]).v + column_sum(Tail(df), col) - MilliPerCenti

column_sum(df, col) ==
    IF df = <<>> THEN 0
    ELSE (IF _coerce_number(Head(df)[col]).nan THEN 0
          ELSE _coerce_number(Head(df)[col]).v)
         + column_sum(Tail(df), col)

\* _summarize_price(df): the row count and the rounded sum of the totals,
\* in cents.
_summarize_price(df) ==
    [priced_rows |-> Len(df),
     sum_monthly_total_usd |->
         RoundHalfEven(column_sum(df, "monthly_total_usd"), MilliPerCenti)]

\* ------------------------------------------------------------------------
\* main.py: the executive summary of the pricing workbook
\* ------------------------------------------------------------------------

\* str.capitalize()
Capitalize(s) ==
    IF s = <<>> THEN s ELSE << UpperChar(Head(s)) >> \o Lower(Tail(s))

\* str.endswith(suffix)
EndsWith(s, suffix) ==
    /\ Len(suffix) <= Len(s)
    /\ SubSeq(s, Len(s) - Len(suffix) + 1, Len(s)) = suffix

\* Series.astype(str) of a cell of the priced rows: the text itself, "nan"
\* and "None" for the two kinds of missing cell (the columns read here hold
\* no numbers).
astype_str(x) ==
    IF x.t = "nan" THEN <<"n", "a", "n">>
    ELSE IF x.t = "none" THEN <<"N", "o", "n", "e">>
    ELSE x.s

\* pd.to_numeric(x, errors="coerce") and fillna(0.0), lines 1040-1046.
to_numeric(x) ==
    IF FloatOf(x).ok /\ ~FloatOf(x).f.nan THEN FloatOf(x).f.v ELSE 0

\* _build_exec_summary, lines 1048-1076: the label of a priced row.
_item_label(r) ==
    LET row_os == Lower(Strip(astype_str(r.os)))
        engine == Lower(Strip(astype_str(r.db_engine)))
        cloud  == Lower(Strip(astype_str(r.cloud)))
        it     == Strip(astype_str(r.db_instance_class))
    IN  IF row_os = <<"w", "i", "n", "d", "o", "w", "s">> THEN <<"W", "i", "n", "d", "o", "w", "s", " ", "V", "M", "s">>
        ELSE IF row_os = <<"r", "h", "e", "l">> THEN <<"R", "H", "E", "L", " ", "S", "e", "r", "v", "e", "r", "s">>
        ELSE IF row_os = <<"s", "u", "s", "e">> THEN <<"S", "U", "S", "E", " ", "S", "e", "r", "v", "e", "r", "s">>
        ELSE IF row_os = <<"l", "i", "n", "u", "x">> THEN <<"L", "i", "n", "u", "x", " ", "V", "M", "s", " ", "(", "g", "e", "n", "e", "r", "i", "c", ")">>
        ELSE IF cloud = <<"a", "z", "u", "r", "e">> /\ to_numeric(r.monthly_db_usd) > 0
        THEN <<"A", "z", "u", "r", "e", " ", "S", "Q", "L", " ", "(", "A", "z", "u", "r", "e", " ", "S", "Q", "L", ")">>
        ELSE IF engine # <<>>
        THEN <<"R", "D", "S", " ">> \o Capitalize(engine)
             \o (IF it # <<>> THEN <<" ", "(">> \o it \o <<")">> ELSE <<>>)
        ELSE <<"O", "t", "h", "e", "r", " ", "C", "o", "m", "p", "u", "t", "e", "/", "S", "e", "r", "v", "i", "c", "e", "s">>

\* The value of an expression that is used more than once: the element of
\* the singleton that holds it.
The(S) == CHOOSE v \in S : TRUE

\* round(x, 2) of an amount of thousandths, in cents.
round_cents(x) == The({ RoundHalfEven(v, MilliPerCenti) : v \in { x } })

\* _build_exec_summary, line 1078: df["_item_label"].
item_labels(df) == [i \in 1..Len(df) |-> _item_label(df[i])]

\* _build_exec_summary, lines 1083-1093: the column a label's rows are
\* summed over.
item_column(label) ==
    IF StartsWith(label, <<"R", "D", "S", " ">>) \/ StartsWith(label, <<"A", "z", "u", "r", "e", " ", "S", "Q", "L">>)
    THEN "monthly_db_usd"
    ELSE IF \/ EndsWith(label, <<"V", "M", "s">>) \/ EndsWith(label, <<"S", "e", "r", "v", "e", "r", "s">>)
            \/ StartsWith(label, <<"L", "i", "n", "u", "x">>)
    THEN "monthly_compute_usd"
    ELSE "monthly_total_usd"

\* sub[col].sum() for the rows i.. of one label, in thousandths.
RECURSIVE group_sum(_, _, _, _, _)
group_sum(df, labels, label, col, i) ==
    IF i > Len(df) THEN 0
    ELSE (IF labels[i] = label THEN to_numeric(df[i][col]) ELSE 0)
         + group_sum(df, labels, label, col, i + 1)

\* df[col].sum() over all rows, in thousandths.
RECURSIVE numeric_sum(_, _)
numeric_sum(df, col) ==
    IF df = <<>> THEN 0
    ELSE to_numeric(Head(df)[col]) + numeric_sum(Tail(df), col)

\* A line of the summary: its name and its Monthly Cost, in cents.
ExecItem(name, monthly) == [Item |-> name, Monthly_Cost |-> monthly]

\* _build_exec_summary, lines 1081-1099: one line per label, here in the
\* order the labels first occur (groupby sorts them; no sum depends on it).
RECURSIVE label_items(_, _, _)
label_items(df, labels, i) ==
    IF i > Len(df) THEN <<>>
    ELSE IF \E j \in 1..(i - 1) : labels[j] = labels[i]
    THEN label_items(df, labels, i + 1)
    ELSE << ExecItem(labels[i],
                     round_cents(group_sum(df, labels, labels[i],
                                           item_column(labels[i]), 1))) >>
         \o label_items(df, labels, i + 1)

\* _add_extra, lines 1102-1105: a line for a column whose sum is above zero.
extra_line(name, total) ==
    IF total > 0 THEN << ExecItem(name, round_cents(total)) >> ELSE <<>>

_add_extra(name, df, col) ==
    The({ extra_line(name, total) : total \in { numeric_sum(df, col) } })

\* out["Monthly Cost"].sum(), in cents.
RECURSIVE monthly_cost_sum(_)
monthly_cost_sum(items) ==
    IF items = <<>> THEN 0
    ELSE Head(items).Monthly_Cost + monthly_cost_sum(Tail(items))

\* The lines of a summary followed by their Total line.
with_total(items) ==
    Append(items, ExecItem(<<"T", "o", "t", "a", "l">>, monthly_cost_sum(items)))

\* _build_exec_summary, lines 1081-1109: the lines before the Total.
summary_lines(df) ==
    The({ label_items(df, labels, 1) : labels \in { item_labels(df) } })
    \o _add_extra(<<"B", "l", "o", "c", "k", " ", "S", "t", "o", "r", "a", "g", "e", " ", "(", "E", "B", "S", "/", "M", "a", "n", "a", "g", "e", "d", " ", "D", "i", "s", "k", ")">>, df, "monthly_ebs_usd")
    \o _add_extra(<<"O", "b", "j", "e", "c", "t", " ", "S", "t", "o", "r", "a", "g", "e", " ", "(", "S", "3", "/", "B", "l", "o", "b", ")">>, df, "monthly_s3_usd")
    \o _add_extra(<<"N", "e", "t", "w", "o", "r", "k", " ", "(", "e", "g", "r", "e", "s", "s", "/", "D", "T", "O", ")">>, df, "monthly_network_usd")

\* _build_exec_summary(df): the lines of the summary, the Total last; empty
\* for no rows.
_build_exec_summary(df) ==
    The({ IF out = <<>> THEN <<>> ELSE with_total(out) :
          out \in { summary_lines(df) } })

\* exec_df["Item"] != "Total"
NotTotal(item) == item.Item # <<"T", "o", "t", "a", "l">>

\* _write_pricing_excel_workbook, lines 1000-1013: the baseline line is put
\* in the place of the Total, and the Total is made again.
with_baseline(exec_df, baseline_total) ==
    IF baseline_total > 0 /\ exec_df # <<>>
    THEN The({ with_total(lines) :
               lines \in { Append(SelectSeq(exec_df, NotTotal),
                                  ExecItem(<<"A", "W", "S", " ", "V", "P", "C", " ", "O", "v", "e", "r", "h", "e", "a", "d", " ", "(", "B", "a", "s", "e", "l", "i", "n", "e", ")">>,
                                           baseline_total)) } })
    ELSE exec_df

\* _write_pricing_excel_workbook, lines 975-1018: the ExecutiveSummary sheet
\* of the rows, for the total baseline.csv gives (in cents, 0 for no file).
exec_summary_sheet(all_rows_df, baseline_total) ==
    The({ with_baseline(exec_df, baseline_total) :
          exec_df \in { _build_exec_summary(all_rows_df) } })

\* The totals baseline.csv can give, in cents: no file, and one of 250.00.
BaselineTotal == 25000
BaselineTotals == { 0, BaselineTotal }

VARIABLES pr_cmd, pr_input, pr_rows, pr_fetched, pr_out, pr_written,
          pr_summary, pr_exec, pr_pc, pr_exit

pr_vars == << pr_cmd, pr_input, pr_rows, pr_fetched, pr_out, pr_written,
              pr_summary, pr_exec, pr_pc, pr_exit >>

PriceFresh ==
    /\ pr_rows = <<>>
    /\ pr_fetched = <<>>
    /\ pr_out = <<>>
    /\ pr_written = None
    /\ pr_summary = None
    /\ pr_exec = <<>>
    /\ pr_exit = None

PriceIdle ==
    /\ pr_cmd = [cloud |-> <<>>, region |-> None, os_name |-> <<>>,
                 hours |-> 0, no_monthly |-> FALSE,
                 no_auto_recommend |-> FALSE]
    /\ pr_input = <<>>
    /\ pr_pc = "idle"
    /\ PriceFresh

PriceInit ==
    /\ pr_cmd \in PriceCommands
    /\ pr_input \in PriceInputsOver(MaxRows)
    /\ pr_pc = "start"
    /\ PriceFresh

PriceExit(code) ==
    /\ pr_exit' = Some(code)
    /\ pr_pc' = "done"

\* price_cmd, lines 554-684, on what price_prepare gives.
PriceLoaded(p) ==
    IF p.raised
    THEN /\ PriceExit(1)
         /\ UNCHANGED pr_rows
    ELSE /\ pr_rows' = p.rows
         /\ pr_pc' = "loop"
         /\ UNCHANGED pr_exit

\* price_cmd up to the pricing loop: read the file, the single-cloud check,
\* and the auto-recommend pass or the --no-auto-recommend gate.
PriceLoad ==
    /\ pr_pc = "start"
    /\ PriceLoaded(price_prepare(pr_input, pr_cmd, cloud_from_str(pr_cmd.cloud),
                                 auto_region(pr_input, pr_cmd.region,
                                             cloud_from_str(pr_cmd.cloud))))
    /\ pr_fetched' = price_fetches(pr_input, pr_cmd,
                                   cloud_from_str(pr_cmd.cloud),
                                   auto_region(pr_input, pr_cmd.region,
                                               cloud_from_str(pr_cmd.cloud)))
    /\ UNCHANGED << pr_cmd, pr_input, pr_out, pr_written, pr_summary, pr_exec >>

\* One turn of the loop, on what price_row gives.
PriceStepped(p) ==
    IF p.raised
    THEN /\ PriceExit(1)
         /\ UNCHANGED pr_out
    ELSE /\ pr_out' = Append(pr_out, p.out)
         /\ UNCHANGED << pr_pc, pr_exit >>

\* price_cmd, lines 688-836: one turn of the pricing loop, the lookups
\* answered by some world.
PriceRow ==
    /\ pr_pc = "loop"
    /\ Len(pr_out) < Len(pr_rows)
    /\ \E w \in PriceWorlds :
          PriceStepped(price_row(pr_rows[Len(pr_out) + 1], pr_cmd,
                                 cloud_from_str(pr_cmd.cloud), w))
    /\ UNCHANGED << pr_cmd, pr_input, pr_rows, pr_fetched, pr_written,
                    pr_summary, pr_exec >>

\* price_cmd, lines 838-876: the priced rows are written, the workbook is
\* made from them with its ExecutiveSummary sheet, and the run summary is
\* made from the written file.
PriceWrite ==
    /\ pr_pc = "loop"
    /\ Len(pr_out) = Len(pr_rows)
    /\ pr_written' = Some(pr_out)
    /\ pr_summary' = Some(_summarize_price(_load_table(pr_out)))
    /\ \E baseline_total \in BaselineTotals :
          pr_exec' = exec_summary_sheet(pr_out, baseline_total)
    /\ PriceExit(0)
    /\ UNCHANGED << pr_cmd, pr_input, pr_rows, pr_fetched, pr_out >>

\* ------------------------------------------------------------------------
\* pricing.py: monthly_azure_sql_cost
\* ------------------------------------------------------------------------

\* The default rates: cents per vCore-hour, cents per GB-month, and the
\* multipliers and the AHUB discount in quarters (1.75, 1.25, 0.25).
AZSQL_DB_VCORE_HOURLY_GP == 15
AZSQL_MI_VCORE_HOURLY_GP == 20
AZSQL_STORAGE_GB_MONTH   == 12
AZSQL_BC_MULTIPLIER      == 7
AZSQL_HS_MULTIPLIER      == 5
AZSQL_AHUB_DISCOUNT      == 1
Quarters                 == 4

\* The unit the monthly amount is summed in, 1/800 of a cent; vcores count
\* tenths of a vCore, so the compute product counts 1/160 of a cent, and
\* storage_gb counts hundredths of a GB, so the storage product counts
\* 1/100 of a cent.
SqlUnitsPerCent    == 800
SqlUnitsPerCompute == 5
SqlUnitsPerStorage == 8

\* A record of prices/azure_sql_prices.json: hourly counts units per hour.
SqlOverride(deployment, tier, license_model, vcores, hourly, storage_gb_month) ==
    [deployment |-> deployment, region |-> <<"e", "a", "s", "t", "u", "s">>, tier |-> tier,
     license_model |-> license_model, vcores |-> vcores, family |-> <<>>,
     hourly |-> hourly, storage_gb_month |-> storage_gb_month]

\* monthly_azure_sql_cost, lines 289-300: the first override record that
\* matches the call, None when there is none.
RECURSIVE sql_override_match(_, _, _, _, _, _, _)
sql_override_match(overrides, dep, reg, tier_norm, lic, vcores, fam) ==
    IF overrides = <<>> THEN None
    ELSE IF /\ Lower(Head(overrides).deployment) = dep
            /\ Lower(Strip(Head(overrides).region)) = reg
            /\ Head(overrides).tier = tier_norm
            /\ Upper(Strip(Head(overrides).license_model)) = lic
            /\ Head(overrides).vcores = vcores
            /\ Strip(Head(overrides).family) = fam
    THEN Some(Head(overrides))
    ELSE sql_override_match(Tail(overrides), dep, reg, tier_norm, lic, vcores, fam)

\* monthly_azure_sql_cost, lines 302-313: compute_hourly * hours, in units.
sql_compute_mut(dep, lt, lic, vcores, hours) ==
    vcores * (IF dep = <<"m", "i">> THEN AZSQL_MI_VCORE_HOURLY_GP
              ELSE AZSQL_DB_VCORE_HOURLY_GP)
           * (IF lt \in { <<"b", "u", "s", "i", "n", "e", "s", "s", "c", "r", "i", "t", "i", "c", "a", "l">>, <<"b", "c">> } THEN AZSQL_BC_MULTIPLIER
              ELSE IF lt \in { <<"h", "y", "p", "e", "r", "s", "c", "a", "l", "e">>, <<"h", "s">> } THEN AZSQL_HS_MULTIPLIER
              ELSE Quarters)
           * Quarters * hours * SqlUnitsPerCompute

sql_compute(dep, lt, lic, vcores, hours) ==
    vcores * (IF dep = <<"m", "i">> THEN AZSQL_MI_VCORE_HOURLY_GP
              ELSE AZSQL_DB_VCORE_HOURLY_GP)
           * (IF lt \in { <<"b", "u", "s", "i", "n", "e", "s", "s", "c", "r", "i", "t", "i", "c", "a", "l">>, <<"b", "c">> } THEN AZSQL_BC_MULTIPLIER
              ELSE IF lt \in { <<"h", "y", "p", "e", "r", "s", "c", "a", "l", "e">>, <<"h", "s">> } THEN AZSQL_HS_MULTIPLIER
              ELSE Quarters)
           * (IF lic = <<"A", "H", "U", "B">> THEN Quarters - AZSQL_AHUB_DISCOUNT ELSE Quarters)
           * hours * SqlUnitsPerCompute

\* max(0.0, float(storage_gb)) * rate, in units; rate counts cents per GB.
sql_storage(storage_gb, rate) ==
    (IF storage_gb > 0 THEN storage_gb ELSE 0) * rate * SqlUnitsPerStorage

\* monthly_azure_sql_cost(deployment, region, tier, family, vcores,
\* storage_gb, license_model, hours), with the override records the price
\* file holds (none when there is no file): cents.
monthly_azure_sql_cost(deployment, region, tier, family, vcores, storage_gb, license_model, hours, overrides) ==
    LET dep == Lower(Strip(IF deployment = <<>> THEN <<"s", "i", "n", "g", "l", "e">> ELSE deployment))
        reg == Lower(Strip(IF region = <<>> THEN <<"e", "a", "s", "t", "u", "s">> ELSE region))
        tier_norm == Strip(IF tier = <<>> THEN <<"G", "e", "n", "e", "r", "a", "l", "P", "u", "r", "p", "o", "s", "e">> ELSE tier)
        lic == Upper(Strip(IF license_model = <<>> THEN <<"L", "i", "c", "e", "n", "s", "e", "I", "n", "c", "l", "u", "d", "e", "d">> ELSE license_model))
        hit == sql_override_match(overrides, dep, reg, tier_norm, lic, vcores, Strip(family))
    IN  IF hit # None
        THEN RoundHalfEven(hit[1].hourly * hours
                              + sql_storage(storage_gb, hit[1].storage_gb_month),
                           SqlUnitsPerCent)
        ELSE RoundHalfEven(sql_compute(dep, Lower(Replace(tier_norm, <<"_">>, <<>>)), lic, vcores, hours)
                              + sql_storage(storage_gb, AZSQL_STORAGE_GB_MONTH),
                           SqlUnitsPerCent)

\* The calls of monthly_azure_sql_cost that are made.
SqlDeployments == { <<"s", "i", "n", "g", "l", "e">>, <<"M", "I">> }
SqlTiers       == { <<"G", "e", "n", "e", "r", "a", "l", "P", "u", "r", "p", "o", "s", "e">>, <<"B", "u", "s", "i", "n", "e", "s", "s", "_", "C", "r", "i", "t", "i", "c", "a", "l">>, <<"h", "s">> }
SqlVcores      == { 0, 5, 10, 20, 80 }
SqlStorages    == { -500, 0, 10, 30, 3200 }
SqlLicenses    == { <<"A", "H", "U", "B">>, <<"L", "i", "c", "e", "n", "s", "e", "I", "n", "c", "l", "u", "d", "e", "d">> }
SqlHours       == { HOURS_PER_MONTH, RoundHours }
SqlOverrideFiles ==
    { <<>>, << SqlOverride(<<"s", "i", "n", "g", "l", "e">>, <<"G", "e", "n", "e", "r", "a", "l", "P", "u", "r", "p", "o", "s", "e">>, <<"A", "H", "U", "B">>, 20, 20000, 10) >> }

VARIABLES sql_in, sql_out, sql_pc

sql_vars == << sql_in, sql_out, sql_pc >>

SqlNoCall == [deployment |-> <<>>, tier |-> <<>>, vcores |-> 0, storage_gb |-> 0,
              license_model |-> <<>>, hours |-> 0, overrides |-> <<>>]

SqlIdle ==
    /\ sql_in = SqlNoCall
    /\ sql_out = None
    /\ sql_pc = "idle"

SqlInit ==
    /\ sql_in \in [deployment : SqlDeployments, tier : SqlTiers,
                   vcores : SqlVcores, storage_gb : SqlStorages,
                   license_model : SqlLicenses, hours : SqlHours,
                   overrides : SqlOverrideFiles]
    /\ sql_out = None
    /\ sql_pc = "start"

\* sql_cost(license_model, storage_gb): the call with another license model
\* and another storage size.
sql_cost(license_model, storage_gb) ==
    monthly_azure_sql_cost(sql_in.deployment, <<"e", "a", "s", "t", "u", "s">>, sql_in.tier, <<>>,
                           sql_in.vcores, storage_gb, license_model,
                           sql_in.hours, sql_in.overrides)

\* One call of monthly_azure_sql_cost.
AzureSqlCost ==
    /\ sql_pc = "start"
    /\ sql_out' = Some(sql_cost(sql_in.license_model, sql_in.storage_gb))
    /\ sql_pc' = "returned"
    /\ UNCHANGED sql_in

\* ------------------------------------------------------------------------
\* summary.py: the global tracking sheet
\* ------------------------------------------------------------------------

\* The texts pd.read_excel reads as NaN under its defaults (keep_default_na),
\* which is how _load_tracking_df calls it: those a name can be typed as.
NA_VALUES ==
    { <<"N", "/", "A">>, <<"N", "A">>, <<"n", "/", "a">>, <<"N", "U", "L", "L">>, <<"n", "u", "l", "l">>, <<"N", "a", "N">>, <<"n", "a", "n">>, <<"#", "N", "/", "A">>, <<"<", "N", "A", ">">> }

\* A row of the Tracking sheet: the name, one of the two texts asked for
\* (ESATS ID; ECS # is handled alike) and one of the rollups of the run.
TrackingRow(app_name, esats_id, grand_total) ==
    [Application_Name |-> app_name, ESATS_ID |-> esats_id,
     Monthly_Grand_Total_USD |-> grand_total]

\* pd.read_excel of a cell: NaN for an empty cell and for a text cell whose
\* text is an NA value.
read_excel_cell(x) ==
    IF x = CEmpty \/ (x.t = "str" /\ x.s \in NA_VALUES) THEN CNaN ELSE x

\* _load_tracking_df(path, sheet), lines 261-285: the rows of the sheet as
\* read, none when there is no workbook.
_load_tracking_df(sheet) ==
    [k \in 1..Len(sheet) |->
        [f \in DOMAIN sheet[k] |-> read_excel_cell(sheet[k][f])]]

\* DataFrame.to_excel of a cell: NaN, None and "" leave the cell empty.
to_excel_cell(x) == IF x \in { CNaN, CNone } THEN CEmpty ELSE x

\* _write_tracking_df_with_retry(path, df, sheet), lines 287-300: the sheet
\* is replaced by the frame.
_write_tracking_df(df) ==
    [k \in 1..Len(df) |-> [f \in DOMAIN df[k] |-> to_excel_cell(df[k][f])]]

\* An answer to a y/n prompt, lines 365-366 and 384-385.
answered_yes(answer) == Lower(Strip(answer)) \in { <<"y">>, <<"y", "e", "s">> }

\* prompt_and_update_tracking, line 381: the rows whose name, with NaN
\* filled by "", stripped and lowered, is app_name lowered.
name_mask(df, app_name) ==
    { k \in 1..Len(df) :
        Lower(Strip(astype_str(IF df[k].Application_Name = CNaN THEN CEmpty
                               ELSE df[k].Application_Name)))
            = Lower(app_name) }

\* prompt_and_update_tracking(run_dir), lines 352-433: the sheet after the
\* prompts are answered proceed, app_name, ow and esats_id, for a run whose
\* grand total is roll.
prompt_and_update_tracking(sheet, proceed, app_name, ow, esats_id, roll) ==
    LET df   == _load_tracking_df(sheet)
        mask == name_mask(df, Strip(app_name))
        existing_idx == CHOOSE k \in mask : \A j \in mask : k <= j
        row  == TrackingRow(CStr(Strip(app_name)), CStr(Strip(esats_id)), CNum(roll))
    IN  IF ~answered_yes(proceed) THEN sheet
        ELSE IF Strip(app_name) = <<>> THEN sheet
        ELSE IF mask # {} /\ ~answered_yes(ow) THEN sheet
        ELSE IF df = <<>> THEN _write_tracking_df(<< row >>)
        ELSE IF mask # {} THEN _write_tracking_df([df EXCEPT ![existing_idx] = row])
        ELSE _write_tracking_df(Append(df, row))

\* The answers typed at the prompts and the grand totals of the runs.
MaxTracked == 3
TrackingAnswers == { <<"y">>, <<"n">> }
TrackingNames == { <<>>, <<"P", "a", "y", "m", "e", "n", "t", "s">>, <<" ", "p", "a", "y", "m", "e", "n", "t", "s", " ">>, <<"L", "e", "d", "g", "e", "r">>, <<"N", "/", "A">> }
TrackingIds == { <<>>, <<"E", "7">> }
TrackingRolls == { 1000 * Milli, 2000 * Milli }

VARIABLES tr_sheet,   \* the rows of the Tracking sheet of output/tracking.xlsx
          tr_in       \* the answers given in the last update

tr_vars == << tr_sheet, tr_in >>

TrackingNoCall == [proceed |-> <<>>, app_name |-> <<>>, ow |-> <<>>,
                   esats_id |-> <<>>, roll |-> 0]

\* No workbook yet.
TrackingInit ==
    /\ tr_sheet = <<>>
    /\ tr_in = TrackingNoCall

TrackingIdle == TrackingInit

\* One pricing run reaches prompt_and_update_tracking and the prompts are
\* answered.
TrackingUpdate ==
    /\ Len(tr_sheet) < MaxTracked
    /\ \E proceed \in TrackingAnswers, app_name \in TrackingNames,
          ow \in TrackingAnswers, esats_id \in TrackingIds, roll \in TrackingRolls :
          /\ tr_in' = [proceed |-> proceed, app_name |-> app_name, ow |-> ow,
                       esats_id |-> esats_id, roll |-> roll]
          /\ tr_sheet' = prompt_and_update_tracking(tr_sheet, proceed, app_name,
                                                    ow, esats_id, roll)

\* ------------------------------------------------------------------------
\* Properties of the selector (under SpecSelect)
\* ------------------------------------------------------------------------

\* C1: whenever pick_instance or pick_azure_size returns a shape, the shape
\* has at least the requested vCPUs and at least the requested memory, and
\* the two over-provisioning deltas derived from it are numbers >= 0.
C1_SelectorSound ==
    (sel_pc = "returned" /\ sel_out.chosen # None) =>
        /\ sel_out.chosen[1].vcpu >= sel_in.need_vcpu
        /\ ~sel_in.need_mem_gib.nan
        /\ sel_out.chosen[1].memory_gib >= sel_in.need_mem_gib.v
        /\ sel_out.overprov_vcpu.t = "num" /\ sel_out.overprov_vcpu.n >= 0
        /\ sel_out.overprov_mem_gib.t = "num" /\ sel_out.overprov_mem_gib.n >= 0

\* A shape strictly larger than the request on both axes was returned from
\* a catalog of the largest size.
C1_Witness ==
    /\ sel_pc = "returned"
    /\ sel_out.chosen # None
    /\ sel_out.overprov_vcpu.n > 0
    /\ sel_out.overprov_mem_gib.n > 0
    /\ Len(sel_in.catalog) = MaxCatalog

\* The family preference rank the selection is specified by: the position
\* of the shape's family in the profile's list, and one past every listed
\* family for a family that is not in it.
C2_Rank(profile, info) ==
    LET families == FAMILY_PREFS(profile)
        family   == BeforeDot(info.instanceType)
    IN  IF \E i \in 1..Len(families) : families[i] = family
        THEN CHOOSE i \in 1..Len(families) : families[i] = family
        ELSE Len(families) + 1

\* a comes strictly before b under (family rank, vCPU, memory, identifier).
C2_Before(profile, a, b) ==
    \/ C2_Rank(profile, a) < C2_Rank(profile, b)
    \/ /\ C2_Rank(profile, a) = C2_Rank(profile, b)
       /\ \/ a.vcpu < b.vcpu
          \/ /\ a.vcpu = b.vcpu
             /\ \/ a.memory_gib < b.memory_gib
                \/ /\ a.memory_gib = b.memory_gib
                   /\ StrLess(a.instanceType, b.instanceType)

\* The qualifying shapes of a call.
C2_Qualifying ==
    { s \in Range(sel_in.catalog) :
        /\ s.vcpu >= sel_in.need_vcpu
        /\ ~sel_in.need_mem_gib.nan
        /\ s.memory_gib >= sel_in.need_mem_gib.v }

\* The catalog in every iteration order.
C2_Reorderings ==
    { [i \in 1..Len(sel_in.catalog) |-> sel_in.catalog[p[i]]] :
        p \in { q \in [1..Len(sel_in.catalog) -> 1..Len(sel_in.catalog)] :
                  \A i, j \in 1..Len(sel_in.catalog) : i # j => q[i] # q[j] } }

\* C2: pick_instance returns the qualifying shape that is least under
\* (family rank, vCPU, memory, identifier), unlisted families ranking after
\* every listed one, and returns the same shape for every iteration order
\* of the same catalog.
C2_LeastAndOrderFree ==
    (sel_pc = "returned" /\ sel_in.cloud = "aws") =>
        /\ (sel_out.chosen = None) <=> (C2_Qualifying = {})
        /\ sel_out.chosen # None =>
              /\ sel_out.chosen[1] \in C2_Qualifying
              /\ \A s \in C2_Qualifying \ { sel_out.chosen[1] } :
                    C2_Before(sel_in.profile, sel_out.chosen[1], s)
        /\ \A c \in C2_Reorderings :
              pick_instance(c, sel_in.profile, sel_in.need_vcpu,
                            sel_in.need_mem_gib) = sel_out.chosen

\* The family rank decided: a shape of a listed family was returned although
\* a qualifying shape of an unlisted family is smaller, and another of an
\* unlisted family ties it on size.
C2_Witness ==
    /\ sel_pc = "returned"
    /\ sel_in.cloud = "aws"
    /\ sel_out.chosen # None
    /\ C2_Rank(sel_in.profile, sel_out.chosen[1]) <= 3
    /\ \E s \in C2_Qualifying :
          /\ C2_Rank(sel_in.profile, s) = 4
          /\ s.memory_gib < sel_out.chosen[1].memory_gib
    /\ \E s \in C2_Qualifying :
          /\ StrLess(s.instanceType, sel_out.chosen[1].instanceType)
          /\ s.vcpu = sel_out.chosen[1].vcpu

\* ------------------------------------------------------------------------
\* Properties of validate_row (under SpecValidate)
\* ------------------------------------------------------------------------

\* The pricing fields of the row that are missing.
C3_MissingForPricing ==
    { f \in {"os", "purchase_option", "root_gb", "root_type"} :
        _is_missing(val_row[f]) }

\* The number of warn issues a result holds on a field.
C3_Warns(f) ==
    Cardinality({ i \in 1..Len(val_res.issues) :
                    /\ val_res.issues[i].level = "warn"
                    /\ val_res.issues[i].field = f })

\* C3: the status is error (blocking recommendation) exactly when an
\* error-level issue is present; otherwise rec_only (blocking pricing)
\* exactly when one of os, purchase_option, root_gb, root_type is missing,
\* with exactly one warn issue on each missing field; otherwise ok (blocking
\* nothing).  Warn issues play no part in the status.
C3_StatusDetermined ==
    val_pc = "returned" =>
        IF HasError(val_res.issues)
        THEN val_res.status = "error" /\ val_res.blocking_for = "recommendation"
        ELSE IF C3_MissingForPricing # {}
        THEN /\ val_res.status = "rec_only"
             /\ val_res.blocking_for = "pricing"
             /\ \A f \in C3_MissingForPricing : C3_Warns(f) = 1
        ELSE val_res.status = "ok" /\ val_res.blocking_for = "none"

\* A row that lacks a pricing field and also draws a warn for a malformed
\* toggle and a normalized region: rec_only, with the warns beside it.
C3_Witness ==
    /\ val_pc = "returned"
    /\ val_res.status = "rec_only"
    /\ Cardinality(C3_MissingForPricing) >= 2
    /\ C3_Warns("byol") = 1
    /\ C3_Warns("region") = 1

\* A Tier A check of the row fails.
C4_TierAFails ==
    HasError(tier_a_issues(val_row, _norm_str(val_row.cloud))
             \o capacity_issues(val_row))

\* C4: when a Tier A check fails the status is error and no issue is on a
\* Tier B field; a row missing both cloud and os is error, never rec_only.
C4_TierADominates ==
    (val_pc = "returned" /\ C4_TierAFails) =>
        /\ val_res.status = "error"
        /\ \A i \in 1..Len(val_res.issues) :
              val_res.issues[i].field \notin
                 {"os", "purchase_option", "profile", "arch", "root_gb",
                  "root_type", "byol", "ahub"}

\* A row missing both cloud and os, carrying an os-independent Tier B fault
\* as well, was classified.
C4_Witness ==
    /\ val_pc = "returned"
    /\ _is_missing(val_row.cloud)
    /\ _is_missing(val_row.os)
    /\ val_row.profile = CStr(<<"t", "u", "r", "b", "o">>)
    /\ val_res.status = "error"

\* ------------------------------------------------------------------------
\* Properties of a recommend or validate run (under SpecRecommend)
\* ------------------------------------------------------------------------

\* A row of the input file names a cloud other than the one the run was
\* started for.
C6_Mismatch ==
    \E i \in 1..Len(run_input) :
        /\ run_input[i].cloud.t = "str"
        /\ Lower(Strip(run_input[i].cloud.s)) \notin { <<>>, run_cmd.cloud }

\* C6: a recommend run whose file names another cloud on some row fails
\* before any row is sized: no record is ever produced and the run does not
\* end with exit code 0.
C6_FailsFast ==
    (run_cmd.name = "recommend" /\ C6_Mismatch) =>
        /\ run_results = <<>>
        /\ run_pc = "done" => run_exit # Some(0)

\* The record the run produced for row i, if any, shows a selector result:
\* a chosen shape, or the note of a selection that found none.
C7_Sized(i) ==
    \E k \in 1..Len(run_results) :
        /\ run_results[k].id = run_df[i].id
        /\ \/ run_results[k].recommended_instance_type # CEmpty
           \/ run_results[k].note \in { CStr(NoteNoMatchAws),
                                        CStr(NoteNoMatchAzure) }

\* C7: with --strict, an error or rec_only row makes the run exit non-zero
\* with no row sized; without it, a run that completes has every error row
\* in the validator report and out of the results, and every ok and
\* rec_only row sized.
C7_StrictAndSkip ==
    /\ (run_cmd.strict /\ run_report # None
          /\ run_idx.error_idx \o run_idx.rec_only_idx # <<>>) =>
           /\ run_results = <<>>
           /\ run_pc = "done" /\ run_exit = Some(2)
    /\ (run_cmd.name = "recommend" /\ ~run_cmd.strict
          /\ run_pc = "done" /\ run_exit = Some(0)) =>
           /\ \A i \in Range(run_idx.error_idx) :
                 /\ run_report[1][i].status = "error"
                 /\ \A k \in 1..Len(run_results) :
                       run_results[k].id # run_df[i].id
           /\ \A i \in Range(run_idx.ok_idx \o run_idx.rec_only_idx) :
                 C7_Sized(i)

\* The catalog the run used for a record it produced.
C8_CatalogOf(out) ==
    IF out.cloud = CStr(<<"a", "w", "s">>)
    THEN run_aws_catalog[1]
    ELSE CacheGet(run_azure_cache, out.region.s)[1]

\* No shape of the catalog meets both minimums of a record's request.
C8_NoneFits(out) ==
    \A s \in Range(C8_CatalogOf(out)) :
        ~(/\ s.vcpu * Milli >= out.requested_vcpu.n
          /\ out.requested_memory_gib.t = "num"
          /\ s.memory_gib >= out.requested_memory_gib.n)

\* C8: a row for which no shape meets both minimums is emitted with empty
\* shape, delta and fit fields and a non-empty note; the step does not
\* raise (a run ends with code 1 only when a size list is unavailable), and
\* a run that completes has a record for every row it set out to size.
C8_NoMatchIsARecord ==
    /\ \A k \in 1..Len(run_results) :
          (run_results[k].requested_vcpu.t = "num"
              /\ C8_NoneFits(run_results[k])) =>
             /\ run_results[k].recommended_instance_type = CEmpty
             /\ run_results[k].rec_vcpu = CEmpty
             /\ run_results[k].rec_memory_gib = CEmpty
             /\ run_results[k].overprov_vcpu = CEmpty
             /\ run_results[k].overprov_mem_gib = CEmpty
             /\ run_results[k].fit_reason = CEmpty
             /\ run_results[k].note.t = "str" /\ run_results[k].note.s # <<>>
    /\ (run_pc = "done" /\ run_exit = Some(1)) =>
          /\ cloud_from_str(run_cmd.cloud) = <<"a", "z", "u", "r", "e">>
          /\ ~fetch_azure_vm_catalog(normalize_azure_region(
                 run_df[RunTodo[run_pos + 1]].region.s)).ok
    /\ (run_pc = "done" /\ run_exit = Some(0) /\ run_cmd.name = "recommend") =>
          Len(run_results) = Len(RunTodo)

\* A run completed in which the first row found no shape and the row after
\* it was given one.
C8_Witness ==
    /\ run_pc = "done" /\ run_exit = Some(0)
    /\ Len(run_results) = 2
    /\ run_results[1].requested_vcpu.t = "num"
    /\ C8_NoneFits(run_results[1])
    /\ run_results[1].note.s # <<>>
    /\ run_results[2].recommended_instance_type # CEmpty

\* ------------------------------------------------------------------------
\* Properties of a price run (under SpecPrice)
\* ------------------------------------------------------------------------

\* C5: in monthly mode the total written for a row is, to the cent, the
\* sum of the five components written for it, each a whole number of cents.
C5_TotalIsSumOfWritten ==
    \A k \in 1..Len(pr_out) :
        ~pr_cmd.no_monthly =>
            /\ \A f \in {"monthly_compute_usd", "monthly_ebs_usd",
                         "monthly_s3_usd", "monthly_network_usd",
                         "monthly_db_usd", "monthly_total_usd"} :
                  pr_out[k][f].t = "num" /\ pr_out[k][f].n % MilliPerCenti = 0
            /\ pr_out[k].monthly_total_usd.n =
                  pr_out[k].monthly_compute_usd.n + pr_out[k].monthly_ebs_usd.n
                  + pr_out[k].monthly_s3_usd.n + pr_out[k].monthly_network_usd.n
                  + pr_out[k].monthly_db_usd.n

\* The worked total, 100.00 + 8.00 + 0.46 + 45.00 + 0.00 = 153.46, beside a
\* row with a database amount and amounts that were rounded.
C5_Witness ==
    /\ Len(pr_out) = 2
    /\ pr_out[1].monthly_compute_usd = Usd2(10000)
    /\ pr_out[1].monthly_ebs_usd = Usd2(800)
    /\ pr_out[1].monthly_s3_usd = Usd2(46)
    /\ pr_out[1].monthly_network_usd = Usd2(4500)
    /\ pr_out[1].monthly_db_usd = Usd2(0)
    /\ pr_out[1].monthly_total_usd = Usd2(15346)
    /\ pr_out[2].monthly_db_usd.n > 0
    /\ pr_out[2].monthly_s3_usd = Usd2(3)

\* C9: a lookup that finds nothing, is answered with an error status or
\* times out never aborts the run (a price run ends with code 1 only before
\* its loop starts), and a row written without a compute price has a
\* compute amount of zero and a note.
C9_LookupNeverAborts ==
    /\ pr_exit = Some(1) => pr_rows = <<>>
    /\ \A k \in 1..Len(pr_out) :
          pr_out[k].price_per_hour_usd = CEmpty =>
             /\ pr_out[k].monthly_compute_usd \in { Usd2(0), CEmpty }
             /\ pr_out[k].pricing_note.s # <<>>

\* A component of a written row was set to zero for want of a price: the
\* compute amount, or the database amount of a row that names an engine.
C10_Zeroed(out) ==
    \/ out.price_per_hour_usd = CEmpty
    \/ /\ out.db_engine # CEmpty
       /\ out.monthly_db_usd = Usd2(0)

\* C10: a price run that completes has written one record per input row,
\* in the rows' order, and every row with a component that was zeroed for
\* want of a price carries a non-empty note.
C10_EveryRowNoted ==
    (pr_pc = "done" /\ pr_exit = Some(0)) =>
        /\ Len(pr_written[1]) = Len(pr_input)
        /\ \A k \in 1..Len(pr_input) :
              /\ pr_written[1][k].id = pr_input[k].id
              /\ C10_Zeroed(pr_written[1][k]) =>
                    pr_written[1][k].pricing_note.s # <<>>

\* The records of a written file follow the order of the input rows (whose
\* id is their position in the input file).
C11_InInputOrder(written) ==
    \A j, k \in 1..Len(written) :
        j < k => written[j].id.n < written[k].id.n

\* C11: the rows written by recommend, and the rows written by price,
\* appear in the same relative order as the corresponding input rows,
\* whatever the validation status of each row.
C11_OrderKept ==
    /\ run_written # None => C11_InInputOrder(run_written[1])
    /\ pr_written # None => C11_InInputOrder(pr_written[1])

\* No (cloud, region) pair is fetched twice in a list of catalog fetches.
C12_NoRepeat(fetched) ==
    \A j, k \in 1..Len(fetched) : fetched[j] = fetched[k] => j = k

\* C12: within one run the capability catalog is fetched from the provider
\* at most once per distinct (cloud, region) pair, in recommend and in
\* price's auto-recommend pass, for AWS and for Azure.
C12_FetchedOncePerRegion ==
    /\ C12_NoRepeat(run_fetched)
    /\ C12_NoRepeat(pr_fetched)

\* The totals written for the rows of a file, added up, in thousandths of a
\* dollar; a row written without a total (--no-monthly) adds nothing.
RECURSIVE C13_SumOfTotals(_)
C13_SumOfTotals(written) ==
    IF written = <<>> THEN 0
    ELSE Head(written).monthly_total_usd.n + C13_SumOfTotals(Tail(written))

\* C13: the rollup's sum_monthly_total_usd equals, to the cent, the sum of
\* the monthly_total_usd values of all priced rows.
C13_RollupIsSumOfTotals ==
    pr_summary # None =>
        /\ pr_summary[1].priced_rows = Len(pr_written[1])
        /\ pr_summary[1].sum_monthly_total_usd * MilliPerCenti
              = C13_SumOfTotals(pr_written[1])

\* A rollup over two priced rows with different non-zero totals.
C13_Witness ==
    /\ pr_summary # None
    /\ Len(pr_written[1]) = 2
    /\ pr_written[1][1].monthly_total_usd.n > 0
    /\ pr_written[1][2].monthly_total_usd.n > pr_written[1][1].monthly_total_usd.n
    /\ pr_summary[1].sum_monthly_total_usd > 0

\* The (vcpu, memory) pairs of the shapes of the call's catalog that meet
\* the vCPU requirement alone, and of those that meet the memory
\* requirement alone.
C14_CpuRanks ==
    { << s.vcpu, s.memory_gib >> :
         s \in { t \in Range(sel_in.catalog) : t.vcpu >= sel_in.need_vcpu } }

C14_MemRanks ==
    { << s.vcpu, s.memory_gib >> :
         s \in { t \in Range(sel_in.catalog) :
                    /\ ~sel_in.need_mem_gib.nan
                    /\ t.memory_gib >= sel_in.need_mem_gib.v } }

\* Rank a is at least rank b, as (vcpu, memory) pairs.
C14_RankGe(a, b) == a[1] > b[1] \/ (a[1] = b[1] /\ a[2] >= b[2])

\* The rank of the smallest shape meeting only the vCPU requirement: the
\* least vCPU count, then the least memory; likewise for memory, the least
\* memory, then the least vCPU count.
C14_CpuOnly ==
    CHOOSE r \in C14_CpuRanks : \A q \in C14_CpuRanks : C14_RankGe(q, r)

C14_MemOnly ==
    CHOOSE r \in C14_MemRanks :
        \A q \in C14_MemRanks : q[2] > r[2] \/ (q[2] = r[2] /\ q[1] >= r[1])

\* The chosen shape has exactly the requested vCPUs and, at two decimals,
\* the requested memory.
C14_Exact ==
    /\ sel_out.chosen[1].vcpu = sel_in.need_vcpu
    /\ (sel_out.chosen[1].memory_gib + 5) \div MilliPerCenti
          = (sel_in.need_mem_gib.v + 5) \div MilliPerCenti

\* C14: for an AWS row with a chosen shape, fit_reason is exact iff the
\* chosen shape has the requested vCPUs and the requested memory at two
\* decimals; otherwise it is memory-bound when the rank of the smallest
\* shape meeting only the memory requirement is >= that of the smallest
\* shape meeting only the vCPU requirement, and cpu-bound otherwise.
C14_FitReason ==
    (sel_pc = "returned" /\ sel_in.cloud = "aws" /\ sel_out.chosen # None) =>
        /\ sel_out.fit_reason = <<"e", "x", "a", "c", "t">> <=> C14_Exact
        /\ ~C14_Exact =>
              sel_out.fit_reason =
                 IF C14_RankGe(C14_MemOnly, C14_CpuOnly)
                 THEN <<"m", "e", "m", "o", "r", "y", "-", "b", "o", "u", "n", "d">>
                 ELSE <<"c", "p", "u", "-", "b", "o", "u", "n", "d">>

\* The worked request: 4 vCPU and 32 GiB on {m6i.xlarge (4, 16),
\* m6i.2xlarge (8, 32)} selects m6i.2xlarge, memory-bound.
C14_Witness ==
    /\ sel_pc = "returned" /\ sel_in.cloud = "aws"
    /\ sel_in.need_vcpu = 4 /\ sel_in.need_mem_gib = F(32000)
    /\ Range(sel_in.catalog)
          = { Shape(<<"m", "6", "i", ".", "x", "l", "a", "r", "g", "e">>, 4, 16000),
              Shape(<<"m", "6", "i", ".", "2", "x", "l", "a", "r", "g", "e">>, 8, 32000) }
    /\ sel_out.chosen = Some(Shape(<<"m", "6", "i", ".", "2", "x", "l", "a", "r", "g", "e">>, 8, 32000))
    /\ sel_out.fit_reason = <<"m", "e", "m", "o", "r", "y", "-", "b", "o", "u", "n", "d">>

\* A cpu-bound choice: the smallest shape with enough memory has fewer
\* vCPUs than the smallest shape with enough vCPUs.
C14_WitnessCpuBound ==
    /\ sel_pc = "returned" /\ sel_in.cloud = "aws"
    /\ sel_out.chosen # None
    /\ sel_out.fit_reason = <<"c", "p", "u", "-", "b", "o", "u", "n", "d">>

\* C15: every record of recommend that has a chosen shape, on either cloud,
\* carries a fit classification that is one of exact, cpu-bound,
\* memory-bound, no-fit-fallback.
C15_FitClassified ==
    \A k \in 1..Len(run_results) :
        run_results[k].recommended_instance_type # CEmpty =>
            /\ run_results[k].fit_reason.t = "str"
            /\ run_results[k].fit_reason.s
                  \in { <<"e", "x", "a", "c", "t">>, <<"c", "p", "u", "-", "b", "o", "u", "n", "d">>, <<"m", "e", "m", "o", "r", "y", "-", "b", "o", "u", "n", "d">>,
                        <<"n", "o", "-", "f", "i", "t", "-", "f", "a", "l", "l", "b", "a", "c", "k">> }

\* The row's cloud and region as written, blanks and letter case aside.
C16_Cloud == Lower(Strip(val_row.cloud.s))

C16_Region == Lower(Strip(val_row.region.s))

\* The region is missing, or it is not a region of the row's cloud: for aws
\* a canonical code or one of the aliases "aws govcloud us-west" and
\* "govcloud-us-east-1", for azure a canonical slug or the display name
\* "east us".
C16_RegionFails ==
    \/ val_row.region.t # "str"
    \/ C16_Region \in _NULLISH_STR
    \/ /\ C16_Cloud = <<"a", "w", "s">>
       /\ C16_Region \notin ALL_AWS_REGIONS
                             \cup { <<"a", "w", "s", " ", "g", "o", "v", "c", "l", "o", "u", "d", " ", "u", "s", "-", "w", "e", "s", "t">>,
                                    <<"g", "o", "v", "c", "l", "o", "u", "d", "-", "u", "s", "-", "e", "a", "s", "t", "-", "1">> }
    \/ /\ C16_Cloud = <<"a", "z", "u", "r", "e">>
       /\ C16_Region \notin AZURE_REGIONS \cup { <<"e", "a", "s", "t", " ", "u", "s">> }

\* Neither capacity cell holds a positive amount (the cells the validator is
\* run on hold a positive amount only as a number).
C16_NoCapacity ==
    /\ val_row.vcpu.t # "num"
    /\ val_row.memory_gib.t # "num"

\* The result holds the capacity issue.
C16_CapacityIssue ==
    \E i \in 1..Len(val_res.issues) :
        val_res.issues[i].field = "vcpu|memory_gib"

\* C16: when the region is missing or fails validation for the row's cloud
\* the result is error, with an error-level region issue and no capacity
\* issue even when both capacity fields are missing; without a region error
\* the capacity check is made, a missing or invalid cloud notwithstanding.
C16_RegionShortCircuits ==
    val_pc = "returned" =>
        /\ C16_RegionFails =>
              /\ val_res.status = "error"
              /\ \E i \in 1..Len(val_res.issues) :
                    /\ val_res.issues[i].level = "error"
                    /\ val_res.issues[i].field = "region"
              /\ ~C16_CapacityIssue
        /\ (~C16_RegionFails /\ C16_NoCapacity) => C16_CapacityIssue

\* A row of cloud aws with an unknown region and no capacity at all.
C16_Witness ==
    /\ val_pc = "returned"
    /\ C16_Cloud = <<"a", "w", "s">>
    /\ C16_Region = <<"m", "a", "r", "s">>
    /\ C16_NoCapacity
    /\ val_res.status = "error"
    /\ ~C16_CapacityIssue

\* A row with an invalid cloud, a region and no capacity: the capacity
\* issue is reported beside the cloud's.
C16_WitnessCloud ==
    /\ val_pc = "returned"
    /\ C16_Cloud = <<"g", "c", "p">>
    /\ ~C16_RegionFails
    /\ C16_NoCapacity
    /\ C16_CapacityIssue

\* The texts that stand for a missing value, in several letter cases.
C17_Tokens ==
    { <<>>, <<"n", "a", "n">>, <<"N", "a", "N">>, <<"n", "u", "l", "l">>, <<"N", "U", "L", "L">>, <<"n", "o", "n", "e">>, <<"N", "o", "n", "e">>, <<"n", "/", "a">>, <<"N", "/", "A">>,
      <<"#", "n", "/", "a">>, <<"#", "N", "/", "A">> }

\* The result for the row validated with None put in field f.
C17_WithNone(f) == validate_row([val_row EXCEPT ![f] = CNone])

\* The rows on which every field is tried with every token: those whose
\* purchase_option, root_gb, profile and byol are the plain ones (each of
\* these fields is still tried with every token on them).
C17_Tried ==
    /\ val_row.purchase_option # CEmpty
    /\ val_row.root_gb # CNaN
    /\ val_row.profile = CNone
    /\ val_row.byol = CNone

\* C17: for the row validated and every field of it, putting the empty
\* text or one of the tokens nan, null, none, n/a, #n/a (in any letter
\* case) in the field gives the status, blocking_for and issue list that
\* None in the field gives; and every row that holds such a text in a field
\* got the result of the row with None there.
C17_MissingUniform ==
    val_pc = "returned" =>
        \A f \in DOMAIN val_row :
            /\ C17_Tried =>
                  \A tok \in C17_Tokens :
                      validate_row([val_row EXCEPT ![f] = CStr(tok)])
                         = C17_WithNone(f)
            /\ (val_row[f].t = "str" /\ val_row[f].s \in C17_Tokens) =>
                  val_res = C17_WithNone(f)

\* A row whose memory_gib is the text "NaN" and whose vcpu is given: the
\* result is the one of a row without memory_gib.
C17_Witness ==
    /\ val_pc = "returned"
    /\ val_row.memory_gib = CStr(<<"N", "a", "N">>)
    /\ val_row.vcpu = CNum(4000)
    /\ val_res = C17_WithNone("memory_gib")
    /\ val_res.status # "error"

\* The number of issues of a level that a result holds on the region.
C18_RegionIssues(level) ==
    Cardinality({ i \in 1..Len(val_res.issues) :
                    /\ val_res.issues[i].field = "region"
                    /\ val_res.issues[i].level = level })

\* The row's region, blanks and letter case aside, is a canonical AWS code.
C18_Canonical ==
    val_row.region.t = "str" /\ Lower(Strip(val_row.region.s)) \in ALL_AWS_REGIONS

\* The row's region is one of the aliases the validator is run on: a listed
\* alias, and a govcloud-us-... spelling of a GovCloud code.
C18_Alias ==
    /\ val_row.region.t = "str"
    /\ Lower(Strip(val_row.region.s))
          \in { <<"a", "w", "s", " ", "g", "o", "v", "c", "l", "o", "u", "d", " ", "u", "s", "-", "w", "e", "s", "t">>, <<"g", "o", "v", "c", "l", "o", "u", "d", "-", "u", "s", "-", "e", "a", "s", "t", "-", "1">> }

\* C18: for a row with cloud aws (any letter case) a canonical region
\* yields no region issue; an alias that normalizes to a canonical code
\* yields exactly one warn-level region issue and no error-level one; every
\* other region yields an error-level region issue and status error.
C18_AwsRegionIssues ==
    (val_pc = "returned" /\ Lower(Strip(val_row.cloud.s)) = <<"a", "w", "s">>) =>
        IF C18_Canonical
        THEN C18_RegionIssues("warn") = 0 /\ C18_RegionIssues("error") = 0
        ELSE IF C18_Alias
        THEN C18_RegionIssues("warn") = 1 /\ C18_RegionIssues("error") = 0
        ELSE C18_RegionIssues("error") >= 1 /\ val_res.status = "error"

\* The alias "aws govcloud us-west" on a row of cloud " AWS ": one warning,
\* and the row is not an error.
C18_Witness ==
    /\ val_pc = "returned"
    /\ val_row.cloud = CStr(<<" ", "A", "W", "S", " ">>)
    /\ val_row.region = CStr(<<"a", "w", "s", " ", "g", "o", "v", "c", "l", "o", "u", "d", " ", "u", "s", "-", "w", "e", "s", "t">>)
    /\ C18_RegionIssues("warn") = 1
    /\ val_res.status = "ok"

\* The number of places of an index list that hold the row index i.
C19_Count(idx, i) == Cardinality({ k \in 1..Len(idx) : idx[k] = i })

\* The index list of a status.
C19_ListOf(status) ==
    IF status = "ok" THEN run_idx.ok_idx
    ELSE IF status = "rec_only" THEN run_idx.rec_only_idx
    ELSE run_idx.error_idx

\* C19: validate_dataframe puts every row index in exactly one of ok_idx,
\* rec_only_idx and error_idx, the one of that row's validate_row status,
\* the three lists hold nothing but row indices, and the report has exactly
\* one entry per row, in input order, with that row's status and blocking_for.
C19_PartitionAndReport ==
    run_report # None =>
        /\ \A i \in 1..Len(run_df) :
              \A s \in {"ok", "rec_only", "error"} :
                 C19_Count(C19_ListOf(s), i)
                    = IF validate_row(run_df[i]).status = s THEN 1 ELSE 0
        /\ Len(run_idx.ok_idx) + Len(run_idx.rec_only_idx)
              + Len(run_idx.error_idx) = Len(run_df)
        /\ Len(run_report[1]) = Len(run_df)
        /\ \A i \in 1..Len(run_df) :
              /\ run_report[1][i].row_index = i
              /\ run_report[1][i].status = validate_row(run_df[i]).status
              /\ run_report[1][i].blocking_for
                    = validate_row(run_df[i]).blocking_for

\* A file of two rows of different statuses has been validated: row 1 is an
\* error and row 2 is not, and each is in its own list.
C19_Witness ==
    /\ run_report # None
    /\ Len(run_df) = 2
    /\ run_idx.error_idx = << 1 >>
    /\ run_idx.ok_idx \o run_idx.rec_only_idx = << 2 >>
    /\ run_report[1][1].status = "error"
    /\ run_report[1][2].status # "error"

\* The row supplies a database engine, an instance class and a region.
C20_Supplies(r) ==
    /\ Strip(StrOf(r.db_engine)) # <<>>
    /\ Strip(StrOf(r.db_instance_class)) # <<>>
    /\ Strip(StrOf(r.region)) # <<>>

\* C20: the managed-database monthly component of a priced row comes from
\* a database price lookup only when the row supplies a database engine, an
\* instance class and a region; when any of the three is absent from the
\* row the component is zero, whatever the database price lookup would
\* answer.
C20_DbOnlyWhenSupplied ==
    \A i \in 1..Len(pr_out) :
        (~pr_cmd.no_monthly /\ ~C20_Supplies(pr_rows[i])) =>
            pr_out[i].monthly_db_usd = Usd2(0)

\* The row asks for SQL Server on AWS under a BYOL license model.
C21_SqlServerByol(r) ==
    /\ IsSqlServer(Lower(Strip(StrOf(r.db_engine))))
    /\ Lower(Strip(StrOf(r.license_model))) = <<"b", "y", "o", "l">>

\* C21: for an AWS row that asks for SQL Server under BYOL the database
\* amount written is one the license-included lookup gives in some world,
\* never the one of the bring-your-own-license lookup, and the row's note
\* records the forced substitution (it is not empty).
C21_ByolForcedToIncluded ==
    \A i \in 1..Len(pr_out) :
        (/\ cloud_from_str(pr_cmd.cloud) = <<"a", "w", "s">>
         /\ ~pr_cmd.no_monthly
         /\ C21_SqlServerByol(pr_rows[i])) =>
            /\ \E w \in PriceWorlds :
                  pr_out[i].monthly_db_usd
                     = Usd2(monthly_rds_cost(StrOf(pr_out[i].region),
                                             pr_cmd.hours, w.rds))
            /\ pr_out[i].pricing_note \notin {CEmpty, CNone}

\* The call is priced by the formula whatever its license model: no record
\* of the override file matches it.
C22_FormulaPath ==
    \A lic \in SqlLicenses :
        sql_override_match(sql_in.overrides, Lower(sql_in.deployment), <<"e", "a", "s", "t", "u", "s">>,
                           sql_in.tier, Upper(lic), sql_in.vcores, <<>>) = None

\* The license-included cost less the AHUB cost, in cents, for a storage
\* size.
C22_Diff(storage_gb) ==
    sql_cost(<<"L", "i", "c", "e", "n", "s", "e", "I", "n", "c", "l", "u", "d", "e", "d">>, storage_gb) - sql_cost(<<"A", "H", "U", "B">>, storage_gb)

\* The storage portion of a storage size is a whole number of cents.
C22_WholeCents(storage_gb) ==
    sql_storage(storage_gb, AZSQL_STORAGE_GB_MONTH) % SqlUnitsPerCent = 0

C22_Abs(x) == IF x < 0 THEN -x ELSE x

\* C22 as stated: on the formula path, for fixed deployment, tier, vcores
\* and hours the difference between the license-included cost and the AHUB
\* cost is the same for every storage_gb.
C22_DiffIndependentOfStorage ==
    (sql_pc = "returned" /\ C22_FormulaPath) =>
        \A s \in SqlStorages : C22_Diff(s) = C22_Diff(sql_in.storage_gb)

\* The unrounded cost of a call under a license model is half-way between
\* two cents (the float sum then rounds either way).
C22_Tie(lic, storage_gb) ==
    (sql_compute(Lower(sql_in.deployment),
                 Lower(Replace(sql_in.tier, <<"_">>, <<>>)), Upper(lic),
                 sql_in.vcores, sql_in.hours)
       + sql_storage(storage_gb, AZSQL_STORAGE_GB_MONTH))
      % SqlUnitsPerCent = SqlUnitsPerCent \div 2

C22_NoTie(storage_gb) == \A lic \in SqlLicenses : ~C22_Tie(lic, storage_gb)

\* C22, amended: on the formula path the value returned is the cost of the
\* call; AHUB takes a quarter off the compute portion (to the rounding of
\* the two amounts); the storage portion is added in full under either
\* license model.  The difference between the two costs depends on
\* storage_gb only through the rounding of each total to cents: between two
\* storage sizes it moves by at most two cents, by at most one when no total
\* is half-way between two cents, and then not at all when both storage
\* portions are whole cents.
C22_DiscountOnComputeOnly ==
    (sql_pc = "returned" /\ C22_FormulaPath) =>
        /\ sql_out = Some(sql_cost(sql_in.license_model, sql_in.storage_gb))
        /\ C22_Abs(4 * sql_cost(<<"A", "H", "U", "B">>, 0) - 3 * sql_cost(<<"L", "i", "c", "e", "n", "s", "e", "I", "n", "c", "l", "u", "d", "e", "d">>, 0)) <= 3
        /\ \A s \in SqlStorages :
              /\ C22_Abs(C22_Diff(s) - C22_Diff(sql_in.storage_gb)) <= 2
              /\ (C22_NoTie(s) /\ C22_NoTie(sql_in.storage_gb)) =>
                    /\ C22_Abs(C22_Diff(s) - C22_Diff(sql_in.storage_gb)) <= 1
                    /\ (C22_WholeCents(s) /\ C22_WholeCents(sql_in.storage_gb)) =>
                          /\ C22_Diff(s) = C22_Diff(sql_in.storage_gb)
                          /\ \A lic \in SqlLicenses :
                                sql_cost(lic, s) - sql_cost(lic, sql_in.storage_gb)
                                   = (sql_storage(s, AZSQL_STORAGE_GB_MONTH)
                                        - sql_storage(sql_in.storage_gb,
                                                      AZSQL_STORAGE_GB_MONTH))
                                     \div SqlUnitsPerCent

\* An AHUB call on the formula path with storage and compute: it costs
\* less than the license-included one, and its difference to it is not the
\* one of another storage size.
C22_Witness ==
    /\ sql_pc = "returned"
    /\ C22_FormulaPath
    /\ sql_in.license_model = <<"A", "H", "U", "B">>
    /\ sql_in.vcores > 0
    /\ sql_in.storage_gb = 30
    /\ C22_NoTie(30) /\ C22_NoTie(10)
    /\ sql_out[1] < sql_cost(<<"L", "i", "c", "e", "n", "s", "e", "I", "n", "c", "l", "u", "d", "e", "d">>, 30)
    /\ C22_Diff(30) # C22_Diff(10)

\* The row priced by the run's command in a world of lookup answers.
C23_Priced(r, w) == price_row(r, pr_cmd, cloud_from_str(pr_cmd.cloud), w)

\* The row with another license model and another operating system.
C23_As(r, license_model, os) ==
    [r EXCEPT !.license_model = CStr(license_model), !.os = CStr(os)]

\* The license model the row is priced under is BYOL: its own, or on Azure
\* the default.
C23_Byol(r) ==
    Lower(Strip(StrOf(CellOr(r.license_model,
                             IF cloud_from_str(pr_cmd.cloud) = <<"a", "w", "s">>
                             THEN CStr(<<"A", "W", "S">>) ELSE CStr(<<"B", "Y", "O", "L">>)))))
       = <<"b", "y", "o", "l">>

\* The hourly price a has is none, or no more than the one b has.
C23_Leq(a, b) ==
    (a.out.price_per_hour_usd.t = "num" /\ b.out.price_per_hour_usd.t = "num")
        => a.out.price_per_hour_usd.n <= b.out.price_per_hour_usd.n

\* The license models under which the license is included.
C23_Included == { <<"A", "W", "S">>, <<"A", "H", "U", "B">> }

\* The row priced last is a BYOL row; in the world w it is priced as the
\* same row is as a Linux row under BYOL.
C23_AsLinux(r, out, w) ==
    /\ ~C23_Priced(r, w).raised
    /\ out.price_per_hour_usd
          = C23_Priced(C23_As(r, <<"B", "Y", "O", "L">>, <<"L", "i", "n", "u", "x">>), w).out.price_per_hour_usd

\* In the world w the row costs no more per hour than it does with its
\* license included.
C23_NoMore(r, included, w) ==
    (~C23_Priced(r, w).raised /\ ~included.raised) =>
        C23_Leq(C23_Priced(r, w), included)

\* C23: the hourly compute price written for a row whose license model is
\* BYOL is, in the world that answered, the price of the same row as a
\* Linux row under BYOL, and it never exceeds the price the same row has,
\* in the same world, when its license is included.  Each row is looked at
\* when it has just been priced.
C23_ByolNeverExceeds ==
    (pr_pc = "loop" /\ Len(pr_out) > 0 /\ C23_Byol(pr_rows[Len(pr_out)])) =>
        /\ \E w \in PriceWorlds :
              C23_AsLinux(pr_rows[Len(pr_out)], pr_out[Len(pr_out)], w)
        /\ \A w \in PriceWorlds : \A lic \in C23_Included :
              C23_NoMore(pr_rows[Len(pr_out)],
                         C23_Priced(C23_As(pr_rows[Len(pr_out)], lic,
                                           StrOf(pr_rows[Len(pr_out)].os)), w),
                         w)

\* A Windows row priced under BYOL at a price below the one it has, in
\* the same world, with the license included.
C23_Witness ==
    \E i \in 1..Len(pr_out) : \E w \in PriceWorlds :
        /\ C23_Byol(pr_rows[i])
        /\ Lower(Strip(StrOf(pr_rows[i].os))) = <<"w", "i", "n", "d", "o", "w", "s">>
        /\ ~C23_Priced(pr_rows[i], w).raised
        /\ ~C23_Priced(C23_As(pr_rows[i], <<"A", "W", "S">>, StrOf(pr_rows[i].os)), w).raised
        /\ pr_out[i].price_per_hour_usd.t = "num"
        /\ pr_out[i].price_per_hour_usd = C23_Priced(pr_rows[i], w).out.price_per_hour_usd
        /\ pr_out[i].price_per_hour_usd.n
              < C23_Priced(C23_As(pr_rows[i], <<"A", "W", "S">>, StrOf(pr_rows[i].os)), w)
                   .out.price_per_hour_usd.n

\* The first entry of a get_products answer that has a USD price and the
\* hourly unit, in response order.
RECURSIVE C24_FirstHourlyDim(_)
C24_FirstHourlyDim(dims) ==
    IF dims = <<>> THEN None
    ELSE IF Head(dims).usd # None /\ Head(dims).unit = "Hrs" THEN Head(dims).usd
    ELSE C24_FirstHourlyDim(Tail(dims))

RECURSIVE C24_FirstHourly(_)
C24_FirstHourly(price_list) ==
    IF price_list = <<>> THEN None
    ELSE IF C24_FirstHourlyDim(Head(price_list)) # None
    THEN C24_FirstHourlyDim(Head(price_list))
    ELSE C24_FirstHourly(Tail(price_list))

\* The first hourly item of an Azure answer, in response order.
RECURSIVE C24_FirstItem(_)
C24_FirstItem(items) ==
    IF items = <<>> THEN None
    ELSE IF Head(items).unit \in {"1 Hour", "Hour"} THEN Some(Head(items).price)
    ELSE C24_FirstItem(Tail(items))

\* The first-entry prices the worlds' answers hold for compute.
C24_FirstPrices ==
    { C24_FirstHourly(w.ec2.PriceList) : w \in PriceWorlds }
    \cup { C24_FirstHourly(w.ec2_licensed.PriceList) : w \in PriceWorlds }
    \cup { C24_FirstItem(w.az.items) : w \in PriceWorlds }

\* The prices of the Azure fallback, base plus uplifts, which no lookup found.
C24_Fallback ==
    { _AZ_BASE_DEFAULT_HOURLY + _AZ_OS_UPLIFT(os) + l :
        os \in { <<"l", "i", "n", "u", "x">>, <<"w", "i", "n", "d", "o", "w", "s">>, <<"r", "h", "e", "l">>, <<"s", "u", "s", "e">> },
        l \in { 0, AZ_LICENSED_UPLIFT } }

\* C24: an hourly compute price that a lookup found for a row is the first
\* USD, hourly-unit entry of some provider answer, in response order: not a
\* minimum over the entries and not an entry of another unit.
C24_FirstHourlyEntry ==
    \A i \in 1..Len(pr_out) :
        (/\ pr_out[i].price_per_hour_usd.t = "num"
         /\ pr_out[i].price_per_hour_usd.n \notin C24_Fallback) =>
            Some(pr_out[i].price_per_hour_usd.n) \in C24_FirstPrices

\* The monthly columns of a priced row.
C25_Columns ==
    { "monthly_compute_usd", "monthly_ebs_usd", "monthly_s3_usd",
      "monthly_network_usd", "monthly_db_usd", "monthly_total_usd" }

\* C25: every monthly component written for a priced row, and the row
\* total, is a number of whole cents that is not below zero, whatever the
\* row, the prices found and the hours per month the command was given.
C25_NonNegativeCents ==
    \A i \in 1..Len(pr_out) :
        ~pr_cmd.no_monthly =>
            \A c \in C25_Columns :
                /\ pr_out[i][c].t = "num"
                /\ pr_out[i][c].n >= 0
                /\ pr_out[i][c].n % MilliPerCenti = 0

C27_OkRowsAreSized ==
    run_cmd.name = "recommend" =>
        \A k \in 1..Len(run_results) :
            run_results[k].note # CStr(NoteInvalid)

\* The names of the shapes the provider lists for a cloud and a region.
C28_Names(cloud, region) ==
    LET cat == IF cloud = <<"a", "z", "u", "r", "e">>
               THEN fetch_azure_vm_catalog(region).catalog
               ELSE fetch_instance_catalog(region).catalog
    IN  { cat[k].instanceType : k \in 1..Len(cat) }

\* C28: the shape chosen for a row of a recommend run is an entry of the
\* catalog of the region written on that output row, for the run's cloud.
C28_OwnRegionCatalog ==
    run_cmd.name = "recommend" =>
        \A k \in 1..Len(run_results) :
            run_results[k].recommended_instance_type \notin {CEmpty, CNaN, CNone} =>
                StrOf(run_results[k].recommended_instance_type)
                    \in C28_Names(cloud_from_str(run_cmd.cloud),
                                  StrOf(run_results[k].region))

\* The baseline line of a summary sheet, in cents; 0 when it has none.
C29_IsBaseline(item) == item.Item = <<"A", "W", "S", " ", "V", "P", "C", " ", "O", "v", "e", "r", "h", "e", "a", "d", " ", "(", "B", "a", "s", "e", "l", "i", "n", "e", ")">>
C29_Baseline(sheet) == monthly_cost_sum(SelectSeq(sheet, C29_IsBaseline))

\* C29: the Total line of the executive summary is, to the cent, the sum of
\* monthly_total_usd over the priced rows plus the baseline total when the
\* sheet has a baseline line.
C29_ExecTotalIsSum ==
    pr_exec # <<>> =>
        pr_exec[Len(pr_exec)].Monthly_Cost
            = RoundHalfEven(numeric_sum(pr_out, "monthly_total_usd"), MilliPerCenti)
              + C29_Baseline(pr_exec)

\* The name of a row of the sheet, trimmed and lowered.
C30_Name(row) == Lower(Strip(StrOf(row.Application_Name)))

\* The rows of the sheet that hold the name an update is for.
C30_Existing(sheet, app_name) ==
    { k \in 1..Len(sheet) : C30_Name(sheet[k]) = Lower(Strip(app_name)) }

\* The row an update writes.
C30_Row(in) ==
    TrackingRow(CStr(Strip(in.app_name)), CStr(Strip(in.esats_id)), CNum(in.roll))

\* An update the user goes through with: yes to the first prompt and a name.
C30_Confirmed(in) == answered_yes(in.proceed) /\ Strip(in.app_name) # <<>>

\* C30: starting from an empty tracking sheet, every update leaves at most
\* one row per application name (trimmed, case-insensitive); an update for a
\* name the sheet holds overwrites that row in place when the overwrite is
\* confirmed and changes nothing when it is declined, and an update for a
\* new name appends exactly one row and leaves the other rows unchanged.
C30_OneRowPerName ==
    [][ /\ \A i, j \in 1..Len(tr_sheet') :
              i # j => C30_Name(tr_sheet'[i]) # C30_Name(tr_sheet'[j])
        /\ ~C30_Confirmed(tr_in') => tr_sheet' = tr_sheet
        /\ C30_Confirmed(tr_in') =>
              IF C30_Existing(tr_sheet, tr_in'.app_name) = {}
              THEN tr_sheet' = Append(tr_sheet, C30_Row(tr_in'))
              ELSE IF answered_yes(tr_in'.ow)
              THEN /\ Len(tr_sheet') = Len(tr_sheet)
                   /\ \A k \in 1..Len(tr_sheet) :
                         tr_sheet'[k] = IF k \in C30_Existing(tr_sheet, tr_in'.app_name)
                                        THEN C30_Row(tr_in') ELSE tr_sheet[k]
              ELSE tr_sheet' = tr_sheet ]_tr_vars

\* ------------------------------------------------------------------------
\* Specifications
\* ------------------------------------------------------------------------

vars == << sel_vars, val_vars, run_vars, pr_vars, sql_vars, tr_vars >>

\* One call of a selector.
InitSelect == SelInit /\ ValIdle /\ RunIdle /\ PriceIdle /\ SqlIdle /\ TrackingIdle
NextSelect ==
    \/ SelectAws /\ UNCHANGED << val_vars, run_vars, pr_vars, sql_vars, tr_vars >>
    \/ SelectAzure /\ UNCHANGED << val_vars, run_vars, pr_vars, sql_vars, tr_vars >>
SpecSelect == InitSelect /\ [][NextSelect]_vars

\* One call of validate_row.
InitValidate == ValInit /\ SelIdle /\ RunIdle /\ PriceIdle /\ SqlIdle /\ TrackingIdle
NextValidate ==
    \/ Validate /\ UNCHANGED << sel_vars, run_vars, pr_vars, sql_vars, tr_vars >>
    \/ ValidateAgain /\ UNCHANGED << sel_vars, run_vars, pr_vars, sql_vars, tr_vars >>
SpecValidate == InitValidate /\ [][NextValidate]_vars

\* One run of the recommend or of the validate command.
InitRecommend == RunInit /\ SelIdle /\ ValIdle /\ PriceIdle /\ SqlIdle /\ TrackingIdle
NextRecommend ==
    \/ RecommendLoad /\ UNCHANGED << sel_vars, val_vars, pr_vars, sql_vars, tr_vars >>
    \/ RecommendRow /\ UNCHANGED << sel_vars, val_vars, pr_vars, sql_vars, tr_vars >>
    \/ RecommendWrite /\ UNCHANGED << sel_vars, val_vars, pr_vars, sql_vars, tr_vars >>
    \/ ValidateCmd /\ UNCHANGED << sel_vars, val_vars, pr_vars, sql_vars, tr_vars >>
SpecRecommend == InitRecommend /\ [][NextRecommend]_vars

\* One run of the price command.
InitPrice == PriceInit /\ SelIdle /\ ValIdle /\ RunIdle /\ SqlIdle /\ TrackingIdle
NextPrice ==
    \/ PriceLoad /\ UNCHANGED << sel_vars, val_vars, run_vars, sql_vars, tr_vars >>
    \/ PriceRow /\ UNCHANGED << sel_vars, val_vars, run_vars, sql_vars, tr_vars >>
    \/ PriceWrite /\ UNCHANGED << sel_vars, val_vars, run_vars, sql_vars, tr_vars >>
SpecPrice == InitPrice /\ [][NextPrice]_vars

\* One run of the price command on a file of one row.
InitPriceOne ==
    /\ PriceInit /\ Len(pr_input) = 1
    /\ SelIdle /\ ValIdle /\ RunIdle /\ SqlIdle /\ TrackingIdle
SpecPriceOne == InitPriceOne /\ [][NextPrice]_vars

\* One call of monthly_azure_sql_cost.
InitAzureSql == SqlInit /\ SelIdle /\ ValIdle /\ RunIdle /\ PriceIdle /\ TrackingIdle
NextAzureSql ==
    \/ AzureSqlCost /\ UNCHANGED << sel_vars, val_vars, run_vars, pr_vars, tr_vars >>
SpecAzureSql == InitAzureSql /\ [][NextAzureSql]_vars

\* The updates of the tracking sheet after a sequence of pricing runs.
InitTracking ==
    /\ TrackingInit
    /\ SelIdle /\ ValIdle /\ RunIdle /\ PriceIdle /\ SqlIdle
NextTracking ==
    \/ TrackingUpdate /\ UNCHANGED << sel_vars, val_vars, run_vars, pr_vars, sql_vars >>
SpecTracking == InitTracking /\ [][NextTracking]_vars

====
